---- MODULE Spec2Model ----
(***************************************************************************)
(* A model of scrypto-testenv: the TestEnvironment handle, its instruction *)
(* label tracker, snapshot/revive, and the two process-wide caches that    *)
(* TestEnvironment::new reads and writes from concurrently running tests.  *)
(***************************************************************************)
EXTENDS Integers, Sequences, FiniteSets, TLC

VARIABLES
    runners,                 \* heap of LedgerSimulator instances: runner id -> ledger state
    TEST_ENVIRONMENT_CACHE,  \* set of package dirs -> TestEnvironmentSnapshot
    PACKAGE_CACHE,           \* package dir -> compiled package
    env_lock,                \* RwLock of TEST_ENVIRONMENT_CACHE: [readers, writer]
    pkg_lock,                \* RwLock of PACKAGE_CACHE: [readers, writer]
    threads,                 \* per test thread: its position in TestEnvironment::new and its locals
    bootstraps,              \* number of generate_new_test_environment runs in this process
    handles,                 \* per test that holds one: its TestEnvironment
    receipts,                \* per test that ran one: the Receipt of its last execute()
    helpers,                 \* per test: HelloSwapTestHelper's pool_address and price
    snapshot,                \* the TestEnvironmentSnapshot the test code holds
    registered,              \* per test: the new_instruction calls of the current round, in call order
    kept,                    \* the Receipts execute() has returned to the test, oldest first
    observed,                \* the last call the test made on a handle or a Receipt, and what came back
    id_allocator             \* which derivation of entity addresses the simulator of this build uses

vars == <<runners, TEST_ENVIRONMENT_CACHE, PACKAGE_CACHE, env_lock, pkg_lock, threads,
          bootstraps, handles, receipts, helpers, snapshot, registered, kept, observed,
          id_allocator>>

cache_vars == <<TEST_ENVIRONMENT_CACHE, PACKAGE_CACHE, env_lock, pkg_lock, threads, bootstraps>>
test_vars == <<kept, observed>>
handle_vars == <<handles, receipts, helpers, snapshot, registered, test_vars>>

----------------------------------------------------------------------------
(* Bounds of the model. *)

NThreads == 2      \* concurrently running tests that call TestEnvironment::new
MaxRounds == 2     \* execute() rounds of the handle whose instruction tracker is followed
MaxCalls == 3      \* new_instruction calls per round of that handle
ReviveRounds == 1  \* execute() rounds per revived environment
ReviveCalls == 1   \* builder calls per round of a revived environment
ExecRounds == 2    \* execute() calls of the test whose Receipts are followed
ExecCalls == 1     \* builder calls per round of that test
OutputCalls == 2   \* builder calls of the manifest whose Receipt is queried
SnapshotRounds == 1  \* execute() rounds of an environment that is snapshotted
SnapshotCalls == 2   \* builder calls per round of that environment
UseCalls == 2        \* calls a test makes on the environment TestEnvironment::new returned to it
BuilderRounds == 2   \* execute() calls of the test that builds through the helper
BuilderCalls == 2    \* helper builder steps per round of such a handle
MaxAddress == 9      \* resource addresses sort_addresses is called with: 0 .. MaxAddress
Reserve == 2         \* a small y reserve a pool is instantiated with
SwapRounds == 2      \* execute() calls of the test that swaps against a pool
SwapCalls == 2       \* swaps per manifest of that test
InstantiateRounds == 2   \* execute() calls of the test that instantiates pools

(* Program constant. *)
INSTRUCTION_COUNTER_INIT == 1

NoAddress == -1
NoBucket == [resource |-> NoAddress, amount |-> 0]
NoOutput == <<>>
\* No call observed yet.
NoCall == [op |-> "none"]

Get(f, k) == IF k \in DOMAIN f THEN f[k] ELSE 0

\* What a call gives back: the value it returns, or the panic (expect / unwrap) that
\* aborts the test, with what the panic carries.
Returns(value) == [ok |-> TRUE, value |-> value]
Aborts(error, carrying) == [ok |-> FALSE, error |-> error, carrying |-> carrying]

\* The test has aborted: its last call did not return, and it makes no further call.
Aborted == observed # NoCall /\ ~observed.result.ok

----------------------------------------------------------------------------
(* The ledger simulator, as the harness uses it.  Every transaction takes  *)
(* the next nonce; the address of an entity a transaction creates is a     *)
(* function of that nonce and of the entity's index in the transaction.    *)
(* The simulator derives it by hashing, so the order of two addresses need *)
(* not be the order in which the entities were created: id_allocator says  *)
(* which of two derivations the build uses, one whose addresses follow the *)
(* order of creation and one that reverses it for successive transactions. *)

IdAllocators == {"creation_order", "reversed"}

Hash(nonce) ==
    IF id_allocator = "creation_order" \/ nonce <= 0 THEN nonce
    ELSE IF nonce % 2 = 1 THEN nonce + 1 ELSE nonce - 1

Address(nonce, index) == Hash(nonce) * (MaxCalls + 1) + index

\* The resource manager's limits, as environment.rs imports them.  MAX_SUPPLY
\* (constants.rs) is 2^152 attos, about 5.7 * 10^27 units, the most that can be minted;
\* the model counts whole units and holds it as the largest of its integers.
DIVISIBILITY_NONE == 0
DIVISIBILITY_MAXIMUM == 18
MAX_SUPPLY == 2147483647

NoMetadata == <<>>
\* metadata! { init { "name" => name, locked; "symbol" => symbol, locked; } }
metadata(name, symbol) == [name |-> name, symbol |-> symbol]

LedgerSimulatorBuilder_build ==
    [nonce |-> 0, next_private_key |-> 1, accounts |-> {}, packages |-> {},
     resources |-> <<>>, account_out |-> <<>>, components |-> <<>>]

new_allocated_account(ledger) ==
    [public_key |-> ledger.next_private_key,
     address |-> Address(ledger.nonce, 0),
     ledger |-> [ledger EXCEPT !.nonce = @ + 1, !.next_private_key = @ + 1,
                               !.accounts = @ \cup {Address(ledger.nonce, 0)}]]

\* impl CreateFungibleResourceAdvanced for LedgerSimulator: one transaction that
\* creates the resource with its initial supply and deposits the supply into account
\* (try_deposit_entire_worktop_or_abort), then
\* receipt.expect_commit(true).new_resource_addresses()[0].  The transaction takes a
\* nonce whatever its outcome; it fails when the resource manager refuses the
\* divisibility or the amount, or when there is no such account, and then nothing of
\* it is kept and expect_commit aborts the test.  ledger.account_out[r] is the amount
\* of r that has left the account the harness works with.
create_fungible_resource_advanced(test_runner, amount, divisibility, account, init) ==
    CHOOSE done \in
        {LET address == Address(ledger.nonce, 0)
             commits == /\ divisibility \in DIVISIBILITY_NONE .. DIVISIBILITY_MAXIMUM
                        /\ amount \in 0 .. MAX_SUPPLY
                        /\ account \in ledger.accounts
         IN  IF commits
             THEN [result |-> Returns(address),
                   ledger |-> [ledger EXCEPT
                                  !.nonce = @ + 1,
                                  !.resources = (address :> [supply |-> amount,
                                                             divisibility |-> divisibility,
                                                             metadata |-> init]) @@ @,
                                  !.account_out = (address :> 0) @@ @]]
             ELSE [result |-> Aborts("CommitOutcomeMismatch", [outcome |-> "failure"]),
                   ledger |-> [ledger EXCEPT !.nonce = @ + 1]]
         : ledger \in {test_runner}} : TRUE

\* test_runner.create_fungible_resource(amount, divisibility, account): the
\* simulator's own call, the same transaction without metadata.
create_fungible_resource(ledger, amount, divisibility, account) ==
    create_fungible_resource_advanced(ledger, amount, divisibility, account, NoMetadata)

\* test_runner.create_non_fungible_resource(account); the harness keeps the address
\* only, and the model does not tell the non-fungibles of the resource apart.
create_non_fungible_resource(ledger, account) ==
    create_fungible_resource(ledger, 1, DIVISIBILITY_NONE, account)

compile(package_dir) == [source |-> package_dir]

publish_package(ledger, compiled_package) ==
    [address |-> Address(ledger.nonce, 0),
     ledger |-> [ledger EXCEPT !.nonce = @ + 1,
                               !.packages = @ \cup {[address |-> Address(ledger.nonce, 0),
                                                     code |-> compiled_package]}]]

\* The pair in the order of the arguments.
sort_addresses_unsorted(a_address, b_address) == <<a_address, b_address>>

sort_addresses(a_address, b_address) ==
    IF a_address < b_address THEN <<a_address, b_address>> ELSE <<b_address, a_address>>

----------------------------------------------------------------------------
(* Manifest instructions. *)

Instr(op, target, resource, amount, price) ==
    [op |-> op, target |-> target, resource |-> resource, amount |-> amount, price |-> price]

lock_standard_test_fee(account) == Instr("lock_standard_test_fee", account, NoAddress, 0, 0)
withdraw_from_account(account, resource, amount) ==
    Instr("withdraw_from_account", account, resource, amount, 0)
take_from_worktop(resource, amount) == Instr("take_from_worktop", NoAddress, resource, amount, 0)
call_function_instantiate(package, x_address, price) ==
    Instr("call_function", package, x_address, 0, price)
call_method_swap(component) == Instr("call_method", component, NoAddress, 0, 0)
deposit_entire_worktop(account) == Instr("deposit_entire_worktop", account, NoAddress, 0, 0)

----------------------------------------------------------------------------
(* The HelloSwap blueprint (examples/hello_swap). *)

\* An instantiate that refuses negative prices only.
HelloSwap_instantiate_nonnegative(x_address, y_bucket, price) ==
    IF price >= 0
    THEN [ok |-> TRUE,
          component |-> [x_vault |-> [resource |-> x_address, amount |-> 0],
                         y_vault |-> y_bucket,
                         price |-> price]]
    ELSE [ok |-> FALSE]

HelloSwap_instantiate(x_address, y_bucket, price) ==
    IF price > 0
    THEN [ok |-> TRUE,
          component |-> [x_vault |-> [resource |-> x_address, amount |-> 0],
                         y_vault |-> y_bucket,
                         price |-> price]]
    ELSE [ok |-> FALSE]      \* assert!(price > Decimal::ZERO)

\* A swap that pays the whole input into the x vault and hands back an empty bucket.
HelloSwap_swap_keeps_input(component, x_bucket) ==
    IF /\ x_bucket.amount >= component.price
       /\ component.y_vault.amount >= 1
       /\ x_bucket.resource = component.x_vault.resource
    THEN [ok |-> TRUE,
          component |-> [component EXCEPT !.x_vault.amount = @ + x_bucket.amount,
                                          !.y_vault.amount = @ - 1],
          output |-> [resource |-> component.y_vault.resource, amount |-> 1],
          remainder |-> [x_bucket EXCEPT !.amount = 0]]
    ELSE [ok |-> FALSE]

HelloSwap_swap(component, x_bucket) ==
    IF /\ x_bucket.amount >= component.price             \* x_bucket.take(self.price)
       /\ component.y_vault.amount >= 1                  \* self.y_vault.take(1)
       /\ x_bucket.resource = component.x_vault.resource \* self.x_vault.put(input)
    THEN [ok |-> TRUE,
          component |-> [component EXCEPT !.x_vault.amount = @ + component.price,
                                          !.y_vault.amount = @ - 1],
          output |-> [resource |-> component.y_vault.resource, amount |-> 1],
          remainder |-> [x_bucket EXCEPT !.amount = @ - component.price]]
    ELSE [ok |-> FALSE]

----------------------------------------------------------------------------
(* Running a manifest against a ledger.  tx is the transaction in flight:  *)
(* the ledger under change, the worktop, the last bucket taken from it,    *)
(* and per instruction the value returned and the worktop changes traced.  *)

Put(bucket) == [change |-> "Put", resource |-> bucket.resource, amount |-> bucket.amount]
Take(bucket) == [change |-> "Take", resource |-> bucket.resource, amount |-> bucket.amount]

\* intent is the identity of the transaction, from which the simulator derives the
\* addresses of the entities the transaction creates.
TxStart(ledger, intent) ==
    [ledger |-> ledger, intent |-> intent, worktop |-> <<>>, bucket |-> NoBucket,
     outputs |-> <<>>, worktop_changes |-> <<>>, created |-> 0, failed |-> FALSE]

TxDone(tx, output, changes) ==
    [tx EXCEPT !.outputs = Append(@, output), !.worktop_changes = Append(@, changes)]

TxFail(tx) == [tx EXCEPT !.failed = TRUE]

TxStep(tx, instr) ==
    CASE instr.op = "lock_standard_test_fee" -> TxDone(tx, NoOutput, <<>>)
      [] instr.op = "withdraw_from_account" ->
            IF instr.target \in tx.ledger.accounts /\ instr.resource \in DOMAIN tx.ledger.account_out
            THEN TxDone([tx EXCEPT !.ledger.account_out[instr.resource] = @ + instr.amount,
                                   !.worktop = (instr.resource :> Get(@, instr.resource) + instr.amount) @@ @],
                        NoOutput, <<Put(instr)>>)
            ELSE TxFail(tx)
      [] instr.op = "take_from_worktop" ->
            IF Get(tx.worktop, instr.resource) >= instr.amount
            THEN TxDone([tx EXCEPT !.worktop[instr.resource] = @ - instr.amount,
                                   !.bucket = [resource |-> instr.resource, amount |-> instr.amount]],
                        NoOutput, <<Take(instr)>>)
            ELSE TxFail(tx)
      [] instr.op = "call_function" ->
            LET made == HelloSwap_instantiate(instr.resource, tx.bucket, instr.price)
                address == Address(tx.intent, tx.created)
            IN  IF /\ instr.target \in {p.address : p \in tx.ledger.packages}
                   /\ tx.bucket # NoBucket
                   /\ made.ok
                THEN TxDone([tx EXCEPT !.ledger.components = (address :> made.component) @@ @,
                                       !.bucket = NoBucket,
                                       !.created = @ + 1],
                            <<address, instr.price>>, <<>>)
                ELSE TxFail(tx)
      [] instr.op = "call_method" ->
            IF instr.target \in DOMAIN tx.ledger.components /\ tx.bucket # NoBucket
            THEN LET swapped == HelloSwap_swap(tx.ledger.components[instr.target], tx.bucket)
                 IN  IF swapped.ok
                     THEN TxDone([tx EXCEPT
                                     !.ledger.components[instr.target] = swapped.component,
                                     !.bucket = NoBucket,
                                     !.worktop =
                                        LET w1 == (swapped.output.resource :>
                                                     Get(@, swapped.output.resource) + swapped.output.amount) @@ @
                                        IN  (swapped.remainder.resource :>
                                               Get(w1, swapped.remainder.resource) + swapped.remainder.amount) @@ w1],
                                 <<swapped.output, swapped.remainder>>,
                                 <<Put(swapped.output), Put(swapped.remainder)>>)
                     ELSE TxFail(tx)
            ELSE TxFail(tx)
      [] instr.op = "deposit_entire_worktop" ->
            IF instr.target \in tx.ledger.accounts /\ tx.bucket = NoBucket
            THEN TxDone([tx EXCEPT !.ledger.account_out =
                                      [r \in DOMAIN @ |-> @[r] - Get(tx.worktop, r)],
                                   !.worktop = <<>>],
                        NoOutput, <<>>)
            ELSE TxFail(tx)

RECURSIVE TxRun(_, _, _)
TxRun(tx, manifest, i) ==
    IF i > Len(manifest) \/ tx.failed THEN tx
    ELSE TxRun(TxStep(tx, manifest[i]), manifest, i + 1)

\* A transaction whose fee cannot be locked is rejected before it runs.
Rejected(ledger, manifest) ==
    \/ manifest = <<>>
    \/ manifest[1].op # "lock_standard_test_fee"
    \/ manifest[1].target \notin ledger.accounts

\* execution_trace is the Option of the commit result: <<>> is None, <<trace>> is
\* Some(trace).  The simulator traces the runs of preview_manifest and
\* execute_manifest; a rejection has no commit result and no trace.
TransactionReceipt(ledger, manifest, intent) ==
    IF Rejected(ledger, manifest)
    THEN [outcome |-> "rejection", outputs |-> <<>>, execution_trace |-> <<>>,
          new_component_addresses |-> {}]
    ELSE LET tx == TxRun(TxStart(ledger, intent), manifest, 1)
         IN  IF tx.failed
             THEN [outcome |-> "failure", outputs |-> <<>>,
                   execution_trace |-> <<[worktop_changes |-> <<>>]>>,
                   new_component_addresses |-> {}]
             ELSE [outcome |-> "success", outputs |-> tx.outputs,
                   execution_trace |-> <<[worktop_changes |-> tx.worktop_changes]>>,
                   new_component_addresses |->
                       DOMAIN tx.ledger.components \ DOMAIN ledger.components]

\* The identities a preview of a manifest may run under.  A committing run is the
\* test transaction of the simulator's next nonce; the harness hands a preview no
\* nonce, so the preview runs either as that same transaction or as one of its own.
PreviewIntents(ledger) == {ledger.nonce, 0 - (ledger.nonce + 1)}

\* preview_manifest runs the manifest and commits nothing.
preview_manifest(ledger, manifest, intent) == TransactionReceipt(ledger, manifest, intent)

\* A commit that keeps what a run did up to the instruction that failed.
execute_manifest_commits_failure(ledger, manifest) ==
    LET tx == TxRun(TxStart(ledger, ledger.nonce), manifest, 1)
    IN  [receipt |-> TransactionReceipt(ledger, manifest, ledger.nonce),
         ledger |-> IF Rejected(ledger, manifest)
                    THEN [ledger EXCEPT !.nonce = @ + 1]
                    ELSE [tx.ledger EXCEPT !.nonce = @ + 1]]

\* execute_manifest takes the next nonce and commits what a successful run did.
execute_manifest(ledger, manifest) ==
    LET tx == TxRun(TxStart(ledger, ledger.nonce), manifest, 1)
    IN  [receipt |-> TransactionReceipt(ledger, manifest, ledger.nonce),
         ledger |-> IF Rejected(ledger, manifest) \/ tx.failed
                    THEN [ledger EXCEPT !.nonce = @ + 1]
                    ELSE [tx.ledger EXCEPT !.nonce = @ + 1]]

----------------------------------------------------------------------------
(* TestEnvironment and TestEnvironmentSnapshot. *)

\* A builder left as ManifestBuilder::new(), without the fee lock.
new_manifest_builder_unseeded(account) == <<>>

\* ManifestBuilder::new().lock_standard_test_fee(account)
new_manifest_builder(account) == <<lock_standard_test_fee(account)>>

\* Every revived environment given the same simulator instance.
build_from_snapshot_shared(id) == 1

\* The simulator instance a revived environment runs on: a new one, built from
\* a copy of the snapshot's state.
build_from_snapshot(id) == id

\* Returns the environment and the state of its simulator; id names the new simulator.
generate_new_test_environment(id) ==
    LET account == new_allocated_account(LedgerSimulatorBuilder_build)
        dapp_definition == new_allocated_account(account.ledger)
        admin_badge == create_fungible_resource(dapp_definition.ledger, 1, DIVISIBILITY_NONE,
                                                account.address)
        a == create_fungible_resource_advanced(admin_badge.ledger, MAX_SUPPLY,
                                               DIVISIBILITY_MAXIMUM, account.address,
                                               metadata("Test token A", "A"))
        b == create_fungible_resource_advanced(a.ledger, MAX_SUPPLY,
                                               DIVISIBILITY_MAXIMUM, account.address,
                                               metadata("Test token B", "B"))
        xy == sort_addresses(a.result.value, b.result.value)
        u == create_fungible_resource(b.ledger, 1000000000, DIVISIBILITY_MAXIMUM,
                                      account.address)
        v == create_fungible_resource(u.ledger, 10000000, DIVISIBILITY_MAXIMUM,
                                      account.address)
        j_nft == create_non_fungible_resource(v.ledger, account.address)
        k_nft == create_non_fungible_resource(j_nft.ledger, account.address)
    IN  [env |-> [test_runner |-> id,
                  manifest_builder |-> new_manifest_builder(account.address),
                  package_addresses |-> <<>>,
                  public_key |-> account.public_key,
                  account |-> account.address,
                  dapp_definition |-> dapp_definition.address,
                  admin_badge_address |-> admin_badge.result.value,
                  a_address |-> a.result.value,
                  b_address |-> b.result.value,
                  x_address |-> xy[1],
                  y_address |-> xy[2],
                  u_address |-> u.result.value,
                  v_address |-> v.result.value,
                  j_nft_address |-> j_nft.result.value,
                  k_nft_address |-> k_nft.result.value,
                  instruction_counter |-> INSTRUCTION_COUNTER_INIT,
                  instruction_ids_by_label |-> <<>>],
         ledger |-> k_nft.ledger]

\* A snapshot that leaves the package name table behind.
create_snapshot_without_packages(env, ledger) ==
    [test_runner_snapshot |-> ledger,
     package_addresses |-> <<>>,
     public_key |-> env.public_key,
     account |-> env.account,
     dapp_definition |-> env.dapp_definition,
     admin_badge_address |-> env.admin_badge_address,
     a_address |-> env.a_address,
     b_address |-> env.b_address,
     x_address |-> env.x_address,
     y_address |-> env.y_address,
     u_address |-> env.u_address,
     v_address |-> env.v_address,
     j_nft_address |-> env.j_nft_address,
     k_nft_address |-> env.k_nft_address]

\* TestEnvironmentSnapshot::from: ledger is the state of the environment's simulator.
create_snapshot(env, ledger) ==
    [test_runner_snapshot |-> ledger,
     package_addresses |-> env.package_addresses,
     public_key |-> env.public_key,
     account |-> env.account,
     dapp_definition |-> env.dapp_definition,
     admin_badge_address |-> env.admin_badge_address,
     a_address |-> env.a_address,
     b_address |-> env.b_address,
     x_address |-> env.x_address,
     y_address |-> env.y_address,
     u_address |-> env.u_address,
     v_address |-> env.v_address,
     j_nft_address |-> env.j_nft_address,
     k_nft_address |-> env.k_nft_address]

\* TestEnvironmentSnapshot::revive; the new simulator starts from
\* snapshot.test_runner_snapshot.
revive(snap, id) ==
    [test_runner |-> build_from_snapshot(id),
     manifest_builder |-> new_manifest_builder(snap.account),
     package_addresses |-> snap.package_addresses,
     public_key |-> snap.public_key,
     account |-> snap.account,
     dapp_definition |-> snap.dapp_definition,
     admin_badge_address |-> snap.admin_badge_address,
     a_address |-> snap.a_address,
     b_address |-> snap.b_address,
     x_address |-> snap.x_address,
     y_address |-> snap.y_address,
     u_address |-> snap.u_address,
     v_address |-> snap.v_address,
     j_nft_address |-> snap.j_nft_address,
     k_nft_address |-> snap.k_nft_address,
     instruction_counter |-> INSTRUCTION_COUNTER_INIT,
     instruction_ids_by_label |-> <<>>]

\* The address table of an environment or of a snapshot.
AddressTable(e) ==
    [package_addresses |-> e.package_addresses,
     public_key |-> e.public_key,
     account |-> e.account,
     dapp_definition |-> e.dapp_definition,
     admin_badge_address |-> e.admin_badge_address,
     a_address |-> e.a_address,
     b_address |-> e.b_address,
     x_address |-> e.x_address,
     y_address |-> e.y_address,
     u_address |-> e.u_address,
     v_address |-> e.v_address,
     j_nft_address |-> e.j_nft_address,
     k_nft_address |-> e.k_nft_address]

\* The id recorded after the counter has advanced.
new_instruction_late(env, label, instruction_count, label_instruction_id) ==
    [env EXCEPT
        !.instruction_ids_by_label =
            (label :> Append(IF label \in DOMAIN @ THEN @[label] ELSE <<>>,
                             env.instruction_counter + instruction_count + label_instruction_id)) @@ @,
        !.instruction_counter = @ + instruction_count]

\* insert(label, vec![id]) in place of entry(label).or_default().push(id).
new_instruction_overwrite(env, label, instruction_count, label_instruction_id) ==
    [env EXCEPT
        !.instruction_ids_by_label =
            (label :> <<env.instruction_counter + label_instruction_id>>) @@ @,
        !.instruction_counter = @ + instruction_count]

new_instruction(env, label, instruction_count, label_instruction_id) ==
    [env EXCEPT
        !.instruction_ids_by_label =
            (label :> Append(IF label \in DOMAIN @ THEN @[label] ELSE <<>>,
                             env.instruction_counter + label_instruction_id)) @@ @,
        !.instruction_counter = @ + instruction_count]

\* A reset that clears the label map and keeps the counter.
reset_instructions_labels_only(env) == [env EXCEPT !.instruction_ids_by_label = <<>>]

\* A reset that starts the counter at 0, as if no fee lock were prepended.
reset_instructions_to_zero(env) ==
    [env EXCEPT !.instruction_ids_by_label = <<>>,
                !.instruction_counter = 0]

reset_instructions(env) ==
    [env EXCEPT !.instruction_ids_by_label = <<>>,
                !.instruction_counter = INSTRUCTION_COUNTER_INIT]

\* An execute that reads the label map for the Receipt after reset_instructions.
execute_map_after_reset(env, ledger, preview_intent) ==
    LET manifest == Append(env.manifest_builder, deposit_entire_worktop(env.account))
        preview_receipt == preview_manifest(ledger, manifest, preview_intent)
        executed == execute_manifest(ledger, manifest)
        instruction_mapping == reset_instructions(env).instruction_ids_by_label
    IN  [env |-> [reset_instructions(env) EXCEPT
                     !.manifest_builder = new_manifest_builder(env.account)],
         ledger |-> executed.ledger,
         receipt |-> [execution_receipt |-> executed.receipt,
                      preview_receipt |-> preview_receipt,
                      instruction_ids_by_label |-> instruction_mapping]]

\* TestHelperExecution::execute on env, whose simulator is in state ledger; the
\* preview runs under preview_intent.
execute(env, ledger, preview_intent) ==
    LET manifest == Append(env.manifest_builder, deposit_entire_worktop(env.account))
        preview_receipt == preview_manifest(ledger, manifest, preview_intent)
        executed == execute_manifest(ledger, manifest)
        instruction_mapping == env.instruction_ids_by_label
    IN  [env |-> [reset_instructions(env) EXCEPT
                     !.manifest_builder = new_manifest_builder(env.account)],
         ledger |-> executed.ledger,
         receipt |-> [execution_receipt |-> executed.receipt,
                      preview_receipt |-> preview_receipt,
                      instruction_ids_by_label |-> instruction_mapping]]

\* Receipt::instruction_ids: the label must be registered (expect).
instruction_ids(receipt, instruction_label) ==
    receipt.instruction_ids_by_label[instruction_label]

\* What execute_expect_* gives back: done is what execute() did; the call returns the
\* Receipt when the committing outcome is of the expected class and aborts with the
\* outcome otherwise (expect_commit_success / expect_commit_failure / expect_rejection).
expect_outcome(done, classes) ==
    [done |-> done,
     result |-> IF done.receipt.execution_receipt.outcome \in classes
                THEN [ok |-> TRUE, value |-> done.receipt]
                ELSE [ok |-> FALSE, error |-> "CommitOutcomeMismatch",
                      carrying |-> done.receipt.execution_receipt]]

execute_expect_success(env, ledger, preview_intent) ==
    expect_outcome(execute(env, ledger, preview_intent), {"success"})

\* An expectation of failure that a rejection satisfies too.
execute_expect_failure_or_rejection(env, ledger, preview_intent) ==
    expect_outcome(execute(env, ledger, preview_intent), {"failure", "rejection"})

execute_expect_failure(env, ledger, preview_intent) ==
    expect_outcome(execute(env, ledger, preview_intent), {"failure"})

execute_expect_rejection(env, ledger, preview_intent) ==
    expect_outcome(execute(env, ledger, preview_intent), {"rejection"})

\* A clone that copies the fields of the handle onto a copy of its simulator.
clone_fieldwise(env, ledger, id) == [env EXCEPT !.test_runner = id]

\* impl Clone for TestEnvironment: self.create_snapshot().revive()
clone(env, ledger, id) == revive(create_snapshot(env, ledger), id)

----------------------------------------------------------------------------
(* The process-wide caches and their read-write locks. *)

\* A lookup that never finds anything.
get_cache_none(cache, key) == <<>>

get_cache(cache, key) == IF key \in DOMAIN cache THEN <<cache[key]>> ELSE <<>>

\* A lookup of TEST_ENVIRONMENT_CACHE that never finds anything.
get_cache_test_environment_none(cache, key, id) == <<>>

\* Some(snapshot.revive()): the revived environment and the state its simulator starts in
get_cache_test_environment(cache, key, id) ==
    IF key \in DOMAIN cache
    THEN <<[env |-> revive(cache[key], id), ledger |-> cache[key].test_runner_snapshot]>>
    ELSE <<>>

\* insert(key, value) in place of entry(key).or_insert(value): the last writer wins.
write_cache_insert(cache, key, value) == (key :> value) @@ cache

\* entry(key).or_insert(value)
write_cache(cache, key, value) ==
    IF key \in DOMAIN cache THEN cache ELSE (key :> value) @@ cache

Unlocked == [readers |-> {}, writer |-> 0]
CanRead(lock) == lock.writer = 0
CanWrite(lock) == lock.readers = {} /\ lock.writer = 0
ReadLock(lock, t) == [lock EXCEPT !.readers = @ \cup {t}]
\* A read guard that is never dropped.
ReadUnlock_leaked(lock, t) == lock

ReadUnlock(lock, t) == [lock EXCEPT !.readers = @ \ {t}]
WriteLock(lock, t) == [lock EXCEPT !.writer = t]
WriteUnlock(lock, t) == [lock EXCEPT !.writer = 0]

----------------------------------------------------------------------------
(* TestEnvironment::new(packages), called by test thread t, step by step.  *)
(* A step is the taking of a lock, the body of a cache function up to the  *)
(* drop of its guard, or one piece of work done with no lock held.         *)

Threads == 1 .. NThreads
PackageNames == {"A", "B"}
\* The package maps the tests pass: none, one package under either name, two packages.
PackageMaps == {<<>>, [n \in {"A"} |-> "d1"], [n \in {"B"} |-> "d1"],
                [n \in PackageNames |-> IF n = "A" THEN "d1" ELSE "d2"]}
NoPackage == [source |-> ""]

Range(f) == {f[k] : k \in DOMAIN f}
\* The orders in which a HashMap with these keys may iterate.
IterationOrders(keys) == {o \in [1 .. Cardinality(keys) -> keys] : Range(o) = keys}

\* A cache key made of one of the package directories only.
package_dirs_of_first(packages) ==
    IF packages = <<>> THEN {} ELSE {CHOOSE d \in Range(packages) : TRUE}

\* let package_dirs: BTreeSet<PathBuf> = packages.values().cloned().collect();
package_dirs_of(packages) == Range(packages)

Goto(t, pc) == [threads EXCEPT ![t].pc = pc]

Call(t, packages, order) ==
    /\ threads[t].pc = "idle"
    /\ threads' = [threads EXCEPT ![t].pc = "get_env",
                                  ![t].packages = packages,
                                  ![t].package_dirs = package_dirs_of(packages),
                                  ![t].publishing = packages,
                                  ![t].order = order]
    /\ UNCHANGED <<id_allocator, runners, TEST_ENVIRONMENT_CACHE, PACKAGE_CACHE, env_lock,
                   pkg_lock, bootstraps, handle_vars>>

\* cache.read() of TEST_ENVIRONMENT_CACHE, for the requested set or for the empty set
EnvReadLock(t) ==
    /\ threads[t].pc \in {"get_env", "get_base"}
    /\ CanRead(env_lock)
    /\ env_lock' = ReadLock(env_lock, t)
    /\ threads' = Goto(t, IF threads[t].pc = "get_env" THEN "get_env_locked" ELSE "get_base_locked")
    /\ UNCHANGED <<id_allocator, runners, TEST_ENVIRONMENT_CACHE, PACKAGE_CACHE, pkg_lock,
                   bootstraps, handle_vars>>

\* get_cache_test_environment(&package_dirs) under the read lock, and the early return
GetEnv(t) ==
    /\ threads[t].pc = "get_env_locked"
    /\ LET cached == get_cache_test_environment(TEST_ENVIRONMENT_CACHE, threads[t].package_dirs, t)
       IN  IF cached # <<>>
           THEN /\ handles' = (t :> cached[1].env) @@ handles
                /\ runners' = (cached[1].env.test_runner :> cached[1].ledger) @@ runners
                /\ threads' = [threads EXCEPT ![t].pc = "returned", ![t].from_cache = TRUE]
           ELSE /\ threads' = Goto(t, "get_base")
                /\ UNCHANGED <<handles, runners>>
    /\ env_lock' = ReadUnlock(env_lock, t)
    /\ UNCHANGED <<id_allocator, TEST_ENVIRONMENT_CACHE, PACKAGE_CACHE, pkg_lock,
                   bootstraps, receipts, helpers, snapshot, registered, test_vars>>

\* get_cache_test_environment(&BTreeSet::new()) under the read lock, whose guard is
\* dropped when the function returns; on a miss the unwrap_or_else closure runs next
GetBase(t) ==
    /\ threads[t].pc = "get_base_locked"
    /\ LET cached == get_cache_test_environment(TEST_ENVIRONMENT_CACHE, {}, t)
       IN  IF cached # <<>>
           THEN /\ handles' = (t :> cached[1].env) @@ handles
                /\ runners' = (cached[1].env.test_runner :> cached[1].ledger) @@ runners
                /\ threads' = Goto(t, IF threads[t].packages = <<>> THEN "returned" ELSE "get_pkg")
           ELSE /\ threads' = Goto(t, "generate")
                /\ UNCHANGED <<handles, runners>>
    /\ env_lock' = ReadUnlock(env_lock, t)
    /\ UNCHANGED <<id_allocator, TEST_ENVIRONMENT_CACHE, PACKAGE_CACHE, pkg_lock,
                   bootstraps, receipts, helpers, snapshot, registered, test_vars>>

\* let test_environment_empty_ = TestEnvironment::generate_new_test_environment();
\* the closure's first statement, run with no lock held and on a simulator of the
\* thread's own, whatever the cache holds by now
GenerateNewTestEnvironment(t) ==
    /\ threads[t].pc = "generate"
    /\ \E made \in {generate_new_test_environment(t)} :
           /\ handles' = (t :> made.env) @@ handles
           /\ runners' = (made.env.test_runner :> made.ledger) @@ runners
    /\ threads' = Goto(t, "write_base")
    /\ bootstraps' = bootstraps + 1
    /\ UNCHANGED <<id_allocator, TEST_ENVIRONMENT_CACHE, PACKAGE_CACHE, env_lock, pkg_lock,
                   receipts, helpers, snapshot, registered, test_vars>>

\* cache.write() of TEST_ENVIRONMENT_CACHE
EnvWriteLock(t) ==
    /\ threads[t].pc \in {"write_base", "write_env"}
    /\ CanWrite(env_lock)
    /\ env_lock' = WriteLock(env_lock, t)
    /\ threads' = Goto(t, IF threads[t].pc = "write_base" THEN "write_base_locked" ELSE "write_env_locked")
    /\ UNCHANGED <<id_allocator, runners, TEST_ENVIRONMENT_CACHE, PACKAGE_CACHE, pkg_lock,
                   bootstraps, handle_vars>>

\* write_cache(&TEST_ENVIRONMENT_CACHE, BTreeSet::new(), snapshot of the new baseline)
WriteBase(t) ==
    /\ threads[t].pc = "write_base_locked"
    /\ TEST_ENVIRONMENT_CACHE' =
          write_cache(TEST_ENVIRONMENT_CACHE, {}, create_snapshot(handles[t], runners[handles[t].test_runner]))
    /\ env_lock' = WriteUnlock(env_lock, t)
    /\ threads' = [threads EXCEPT
                      ![t].pc = IF threads[t].packages = <<>> THEN "returned" ELSE "get_pkg",
                      ![t].inserted = {} \notin DOMAIN TEST_ENVIRONMENT_CACHE]
    /\ UNCHANGED <<id_allocator, runners, PACKAGE_CACHE, pkg_lock, bootstraps, handle_vars>>

\* compile_and_publish_packages, next package: cache.read() of PACKAGE_CACHE
PkgReadLock(t) ==
    /\ threads[t].pc = "get_pkg"
    /\ CanRead(pkg_lock)
    /\ pkg_lock' = ReadLock(pkg_lock, t)
    /\ threads' = Goto(t, "get_pkg_locked")
    /\ UNCHANGED <<id_allocator, runners, TEST_ENVIRONMENT_CACHE, PACKAGE_CACHE, env_lock,
                   bootstraps, handle_vars>>

\* env.compile_and_publish_packages(packages), called by test thread t on its own on
\* the environment new returned to it: the same steps as inside new, on the packages
\* given, and no write of TEST_ENVIRONMENT_CACHE after them.
CompileAndPublishPackages(t, packages, order) ==
    /\ threads[t].pc = "returned"
    /\ packages # <<>>
    /\ threads' = [threads EXCEPT ![t].pc = "get_pkg",
                                  ![t].publishing = packages,
                                  ![t].order = order,
                                  ![t].package_addresses = <<>>,
                                  ![t].standalone = @ + 1]
    /\ UNCHANGED <<id_allocator, runners, TEST_ENVIRONMENT_CACHE, PACKAGE_CACHE, env_lock,
                   pkg_lock, bootstraps, handle_vars>>

\* self.test_runner.publish_package(compiled_package, ..) for the package the
\* iteration is at; after the last one, self.package_addresses.extend(package_addresses),
\* and the call returns: into new, which goes on to cache the environment, or to the
\* test that called it on its own.
\* The state of thread t, of its environment and of its simulator afterwards.
PublishNext(t, compiled_package) ==
    LET package_name == threads[t].order[1]
        published == publish_package(runners[handles[t].test_runner], compiled_package)
        package_addresses == (package_name :> published.address) @@ threads[t].package_addresses
        last == Len(threads[t].order) = 1
    IN  [ledger |-> published.ledger,
         env |-> IF last
                 THEN [handles[t] EXCEPT !.package_addresses = package_addresses @@ @]
                 ELSE handles[t],
         thread |-> [threads[t] EXCEPT !.pc = IF ~last THEN "get_pkg"
                                             ELSE IF threads[t].standalone > 0 THEN "returned"
                                             ELSE "write_env",
                                       !.order = Tail(@),
                                       !.cache_result = <<>>,
                                       !.compiled = NoPackage,
                                       !.package_addresses = package_addresses]]

\* let cache_result = get_cache(&PACKAGE_CACHE, &package_dir), under the read lock,
\* whose guard is dropped when get_cache returns; the Some arm of the match makes the
\* cached package the compiled_package, the None arm goes on to compile
GetPkg(t) ==
    /\ threads[t].pc = "get_pkg_locked"
    /\ LET package_dir == threads[t].publishing[threads[t].order[1]]
           cache_result == get_cache(PACKAGE_CACHE, package_dir)
       IN  threads' = [threads EXCEPT
                          ![t].pc = IF cache_result # <<>> THEN "publish" ELSE "compile",
                          ![t].cache_result = cache_result,
                          ![t].compiled = IF cache_result # <<>> THEN cache_result[1] ELSE @]
    /\ pkg_lock' = ReadUnlock(pkg_lock, t)
    /\ UNCHANGED <<id_allocator, runners, TEST_ENVIRONMENT_CACHE, PACKAGE_CACHE, env_lock,
                   bootstraps, handle_vars>>

\* let compiled_package = self.test_runner.compile(&package_dir), with no lock held
Compile(t) ==
    /\ threads[t].pc = "compile"
    /\ threads' = [threads EXCEPT
                      ![t].pc = "write_pkg",
                      ![t].compiled = compile(threads[t].publishing[threads[t].order[1]])]
    /\ UNCHANGED <<id_allocator, runners, TEST_ENVIRONMENT_CACHE, PACKAGE_CACHE, env_lock,
                   pkg_lock, bootstraps, handle_vars>>

\* cache.write() of PACKAGE_CACHE
PkgWriteLock(t) ==
    /\ threads[t].pc = "write_pkg"
    /\ CanWrite(pkg_lock)
    /\ pkg_lock' = WriteLock(pkg_lock, t)
    /\ threads' = Goto(t, "write_pkg_locked")
    /\ UNCHANGED <<id_allocator, runners, TEST_ENVIRONMENT_CACHE, PACKAGE_CACHE, env_lock,
                   bootstraps, handle_vars>>

\* write_cache(&PACKAGE_CACHE, package_dir, compiled_package.clone()), whose guard is
\* dropped when it returns
WritePkg(t) ==
    /\ threads[t].pc = "write_pkg_locked"
    /\ LET package_dir == threads[t].publishing[threads[t].order[1]]
       IN  /\ PACKAGE_CACHE' = write_cache(PACKAGE_CACHE, package_dir, threads[t].compiled)
           /\ threads' = [threads EXCEPT
                             ![t].pc = "publish",
                             ![t].inserted = package_dir \notin DOMAIN PACKAGE_CACHE]
    /\ pkg_lock' = WriteUnlock(pkg_lock, t)
    /\ UNCHANGED <<id_allocator, runners, TEST_ENVIRONMENT_CACHE, env_lock, bootstraps,
                   handle_vars>>

\* self.test_runner.publish_package(compiled_package, ..) with no lock held, on the
\* cached package after a hit and on the thread's own after a miss
PublishPackage(t) ==
    /\ threads[t].pc = "publish"
    /\ LET next == PublishNext(t, threads[t].compiled)
       IN  /\ runners' = [runners EXCEPT ![handles[t].test_runner] = next.ledger]
           /\ handles' = [handles EXCEPT ![t] = next.env]
           /\ threads' = [threads EXCEPT ![t] = next.thread]
    /\ UNCHANGED <<id_allocator, TEST_ENVIRONMENT_CACHE, PACKAGE_CACHE, env_lock, pkg_lock,
                   bootstraps, receipts, helpers, snapshot, registered, test_vars>>

\* write_cache(&TEST_ENVIRONMENT_CACHE, package_dirs, test_environment_new.create_snapshot())
WriteEnv(t) ==
    /\ threads[t].pc = "write_env_locked"
    /\ TEST_ENVIRONMENT_CACHE' =
          write_cache(TEST_ENVIRONMENT_CACHE, threads[t].package_dirs,
                      create_snapshot(handles[t], runners[handles[t].test_runner]))
    /\ env_lock' = WriteUnlock(env_lock, t)
    /\ threads' = [threads EXCEPT
                      ![t].pc = "returned",
                      ![t].inserted = threads[t].package_dirs \notin DOMAIN TEST_ENVIRONMENT_CACHE]
    /\ UNCHANGED <<id_allocator, runners, PACKAGE_CACHE, pkg_lock, bootstraps, handle_vars>>

ThreadStep(t) ==
    \/ EnvReadLock(t) \/ GetEnv(t) \/ GetBase(t) \/ GenerateNewTestEnvironment(t)
    \/ EnvWriteLock(t) \/ WriteBase(t)
    \/ PkgReadLock(t) \/ GetPkg(t) \/ Compile(t) \/ PkgWriteLock(t) \/ WritePkg(t)
    \/ PublishPackage(t) \/ WriteEnv(t)

InitThread ==
    [pc |-> "idle", packages |-> <<>>, package_dirs |-> {}, publishing |-> <<>>,
     order |-> <<>>, cache_result |-> <<>>, compiled |-> NoPackage, package_addresses |-> <<>>,
     inserted |-> FALSE, from_cache |-> FALSE, standalone |-> 0]

InitTestVars ==
    /\ kept = <<>>
    /\ observed = NoCall

InitHandleVars ==
    /\ handles = <<>>
    /\ receipts = <<>>
    /\ helpers = <<>>
    /\ registered = <<>>
    /\ InitTestVars

\* The caches of a process before any test has run, in a build of either address
\* derivation: generate_new_test_environment sorts a_address and b_address.
InitCache ==
    /\ id_allocator \in IdAllocators
    /\ runners = <<>>
    /\ TEST_ENVIRONMENT_CACHE = <<>>
    /\ PACKAGE_CACHE = <<>>
    /\ env_lock = Unlocked
    /\ pkg_lock = Unlocked
    /\ threads = [t \in Threads |-> InitThread]
    /\ bootstraps = 0
    /\ InitHandleVars
    /\ snapshot = <<>>

\* The package maps test t passes to new: the first two tests pass any of them, a
\* further test passes none or one package.
PackageMapsOf(t) == IF t <= 2 THEN PackageMaps ELSE {<<>>, [n \in {"A"} |-> "d1"]}

NextCache ==
    \/ \E t \in Threads : \E packages \in PackageMapsOf(t) :
          \E order \in IterationOrders(DOMAIN packages) : Call(t, packages, order)
    \/ \E t \in Threads : ThreadStep(t)

SpecCache == InitCache /\ [][NextCache]_vars

FairSpecCache == SpecCache /\ \A t \in Threads : WF_vars(ThreadStep(t))

----------------------------------------------------------------------------
(* One test and its TestEnvironment handle h: the instruction tracker, the *)
(* HelloSwapTestHelper builder steps, execute, and revive.                 *)

\* TestEnvironment::new in a fresh process with the HelloSwap package: the baseline
\* is generated and the package compiled and published on top of it.
new_with_hello_swap(id) ==
    LET made == generate_new_test_environment(id)
        published == publish_package(made.ledger, compile("d1"))
    IN  [env |-> [made.env EXCEPT !.package_addresses = ("HelloSwap" :> published.address) @@ @],
         ledger |-> published.ledger]

\* HelloSwapTestHelper::new: pool_address: None, price: None
NewHelper == [pool_address |-> NoAddress, price |-> 0]

LedgerOf(h) == runners[handles[h].test_runner]

----------------------------------------------------------------------------
(* Queries of the environment and of a Receipt: each returns a value or    *)
(* aborts the test (expect / unwrap).                                      *)

\* A lookup that answers an unpublished name with a published package's address.
package_address_default(env, package_name) ==
    IF package_name \in DOMAIN env.package_addresses
    THEN Returns(env.package_addresses[package_name])
    ELSE Returns(CHOOSE a \in Range(env.package_addresses) \cup {0} : TRUE)

\* TestEnvironment::package_address: expect("Package {name} not found")
package_address(env, package_name) ==
    IF package_name \in DOMAIN env.package_addresses
    THEN Returns(env.package_addresses[package_name])
    ELSE Aborts("NotFound", package_name)

\* unwrap_or_default() in place of expect(..): no ids for an unregistered label.
Receipt_instruction_ids_or_default(receipt, instruction_label) ==
    IF instruction_label \in DOMAIN receipt.instruction_ids_by_label
    THEN Returns(receipt.instruction_ids_by_label[instruction_label])
    ELSE Returns(<<>>)

\* Receipt::instruction_ids: expect("Can't find instruction '{label}'")
Receipt_instruction_ids(receipt, instruction_label) ==
    IF instruction_label \in DOMAIN receipt.instruction_ids_by_label
    THEN Returns(receipt.instruction_ids_by_label[instruction_label])
    ELSE Aborts("NotFound", instruction_label)

\* TransactionReceipt::expect_commit_success
expect_commit_success(transaction_receipt) ==
    IF transaction_receipt.outcome = "success"
    THEN Returns(transaction_receipt)
    ELSE Aborts("NotCommitSuccess", transaction_receipt)

\* TransactionReceiptOutputBuckets::outputs: output(id) of the commit result for every
\* id, in the order of instruction_ids; output(id) indexes the instructions from 0.
TransactionReceipt_outputs(transaction_receipt, ids) ==
    IF ids = <<>> THEN Returns(<<>>)
    ELSE IF ~expect_commit_success(transaction_receipt).ok
    THEN expect_commit_success(transaction_receipt)
    ELSE IF \E i \in 1 .. Len(ids) : ids[i] + 1 \notin DOMAIN transaction_receipt.outputs
    THEN Aborts("NoSuchInstruction", ids)
    ELSE Returns([i \in 1 .. Len(ids) |-> transaction_receipt.outputs[ids[i] + 1]])

\* Receipt::outputs reading the preview outcome.
Receipt_outputs_of_preview(receipt, instruction_label) ==
    LET ids == Receipt_instruction_ids(receipt, instruction_label)
    IN  IF ids.ok THEN TransactionReceipt_outputs(receipt.preview_receipt, ids.value) ELSE ids

\* Receipt::outputs: the instruction ids are looked up first, then read off the
\* committing outcome.
Receipt_outputs(receipt, instruction_label) ==
    LET ids == Receipt_instruction_ids(receipt, instruction_label)
    IN  IF ids.ok THEN TransactionReceipt_outputs(receipt.execution_receipt, ids.value) ELSE ids

\* execution_trace.worktop_changes(): the worktop changes by instruction index.
\* Whether an instruction that changed nothing on the worktop has an (empty) entry is
\* the simulator's choice: every_instruction tells which.
worktop_changes(execution_trace, every_instruction) ==
    LET all == {i - 1 : i \in DOMAIN execution_trace.worktop_changes}
        traced == IF every_instruction THEN all
                  ELSE {id \in all : execution_trace.worktop_changes[id + 1] # <<>>}
    IN  [id \in traced |-> execution_trace.worktop_changes[id + 1]]

ResourceSpecifier(change) == [resource |-> change.resource, amount |-> change.amount]

\* filter_map: the resource of every WorktopChange::Put, in the order of the trace
put_resources(instruction_worktop_changes) ==
    LET puts == SelectSeq(instruction_worktop_changes, LAMBDA change : change.change = "Put")
    IN  [k \in DOMAIN puts |-> ResourceSpecifier(puts[k])]

\* TransactionReceiptOutputBuckets::output_buckets: expect_commit_success first; a
\* commit result without an execution trace gives vec![] whatever the ids; with a
\* trace, worktop_changes.get(id).unwrap() for every id, in the order of ids.
TransactionReceipt_output_buckets(transaction_receipt, ids, every_instruction) ==
    IF ~expect_commit_success(transaction_receipt).ok
    THEN expect_commit_success(transaction_receipt)
    ELSE IF transaction_receipt.execution_trace = <<>>
    THEN Returns(<<>>)
    ELSE LET changes == worktop_changes(transaction_receipt.execution_trace[1], every_instruction)
         IN  IF \E i \in 1 .. Len(ids) : ids[i] \notin DOMAIN changes
             THEN Aborts("NoSuchInstruction", ids)
             ELSE Returns([i \in 1 .. Len(ids) |-> put_resources(changes[ids[i]])])

\* Receipt::output_buckets: the instruction ids are looked up first, then the worktop
\* changes are read off the preview outcome.
Receipt_output_buckets(receipt, instruction_label, every_instruction) ==
    LET ids == Receipt_instruction_ids(receipt, instruction_label)
    IN  IF ids.ok
        THEN TransactionReceipt_output_buckets(receipt.preview_receipt, ids.value, every_instruction)
        ELSE ids

NewCall(label, instruction_count, label_instruction_id) ==
    [label |-> label, instruction_count |-> instruction_count,
     label_instruction_id |-> label_instruction_id]

\* env.new_instruction(label, instruction_count, label_instruction_id)
NewInstruction(h, label, instruction_count, label_instruction_id) ==
    /\ h \in DOMAIN handles
    /\ handles' = [handles EXCEPT
                      ![h] = new_instruction(@, label, instruction_count, label_instruction_id)]
    /\ registered' = [registered EXCEPT
                         ![h] = Append(@, NewCall(label, instruction_count, label_instruction_id))]
    /\ UNCHANGED <<id_allocator, runners, receipts, helpers, snapshot, cache_vars,
                   test_vars>>

\* HelloSwapTestHelper::instantiate, on the builder of env
instantiate(env, x_address, y_address, y_amount, price) ==
    new_instruction(
        [env EXCEPT !.manifest_builder =
            @ \o <<withdraw_from_account(env.account, y_address, y_amount),
                   take_from_worktop(y_address, y_amount),
                   call_function_instantiate(env.package_addresses["HelloSwap"], x_address, price)>>],
        "instantiate", 3, 2)

\* HelloSwapTestHelper::swap, on the builder of env
swap(env, pool_address, x_address, x_amount) ==
    new_instruction(
        [env EXCEPT !.manifest_builder =
            @ \o <<withdraw_from_account(env.account, x_address, x_amount),
                   take_from_worktop(x_address, x_amount),
                   call_method_swap(pool_address)>>],
        "swap", 3, 2)

\* helper.swap(helper.x_address(), x_amount).  mem::replace takes the builder out of
\* the environment and leaves ManifestBuilder::new() in its place; the operations are
\* chained on the builder taken, which is put back, and new_instruction registers them.
\* On a helper without a pool self.pool_address.unwrap() aborts the test inside the
\* chain: the environment is left with the empty builder, and its counter and label
\* map are as they were.
Swap(h, x_amount) ==
    /\ h \in DOMAIN handles
    /\ IF helpers[h].pool_address # NoAddress
       THEN /\ handles' = [handles EXCEPT
                              ![h] = swap(@, helpers[h].pool_address, handles[h].x_address,
                                          x_amount)]
            /\ registered' = [registered EXCEPT ![h] = Append(@, NewCall("swap", 3, 2))]
            /\ observed' = observed
       ELSE /\ handles' = [handles EXCEPT ![h].manifest_builder = <<>>]
            /\ registered' = registered
            /\ observed' = [op |-> "swap", of |-> h,
                            result |-> Aborts("UnwrapNone", "pool_address")]
    /\ UNCHANGED <<id_allocator, runners, receipts, helpers, snapshot, cache_vars, kept>>

\* helper.reset_instructions(), called by the test on its own: the label map and the
\* counter are reset, the builder keeps its instructions and no transaction runs.
ResetInstructions(h) ==
    /\ h \in DOMAIN handles
    /\ handles' = [handles EXCEPT ![h] = reset_instructions(@)]
    /\ registered' = [registered EXCEPT ![h] = <<>>]
    /\ UNCHANGED <<id_allocator, runners, receipts, helpers, snapshot, cache_vars,
                   test_vars>>

\* helper.execute(verbose)
Execute(h) ==
    /\ h \in DOMAIN handles
    /\ \E preview_intent \in PreviewIntents(LedgerOf(h)) :
       \E done \in {execute(handles[h], LedgerOf(h), preview_intent)} :
           /\ handles' = [handles EXCEPT ![h] = done.env]
           /\ runners' = [runners EXCEPT ![handles[h].test_runner] = done.ledger]
           /\ receipts' = (h :> done.receipt) @@ receipts
    /\ registered' = [registered EXCEPT ![h] = <<>>]
    /\ UNCHANGED <<id_allocator, helpers, snapshot, cache_vars, test_vars>>

\* HelloSwapTestHelper::instantiate_default: instantiate, execute_expect_success, and
\* the pool address and price are read from outputs("instantiate")[0].  The round runs
\* whatever comes of it: the transaction takes its nonce and the handle is reset.  A
\* commit that is no success aborts the test in execute_expect_success, and an id of
\* "instantiate" that is no position of the manifest aborts it in outputs, after the
\* pool was created; the helper then has no pool address.
InstantiateDefault(h, y_amount, price) ==
    /\ h \in DOMAIN handles
    /\ \E preview_intent \in PreviewIntents(LedgerOf(h)) :
       \E call \in {execute_expect_success(instantiate(handles[h], handles[h].x_address,
                                                       handles[h].y_address, y_amount, price),
                                           LedgerOf(h), preview_intent)} :
          LET read == IF call.result.ok
                      THEN Receipt_outputs(call.result.value, "instantiate")
                      ELSE call.result
              first == IF read.ok /\ read.value = <<>>
                       THEN Aborts("IndexOutOfBounds", 0)
                       ELSE read
          IN  /\ handles' = [handles EXCEPT ![h] = call.done.env]
              /\ runners' = [runners EXCEPT ![handles[h].test_runner] = call.done.ledger]
              /\ receipts' = (h :> call.done.receipt) @@ receipts
              /\ helpers' = IF first.ok
                            THEN [helpers EXCEPT ![h] = [pool_address |-> first.value[1][1],
                                                         price |-> first.value[1][2]]]
                            ELSE helpers
              /\ observed' = IF first.ok
                             THEN observed
                             ELSE [op |-> "instantiate_default", of |-> h, price |-> price,
                                   result |-> first]
    /\ registered' = [registered EXCEPT ![h] = <<>>]
    /\ UNCHANGED <<id_allocator, snapshot, cache_vars, kept>>

\* let env = snapshot.revive(), wrapped in a new helper
Revive(h) ==
    /\ h \notin DOMAIN handles
    /\ LET revived == revive(snapshot, h)
       IN  /\ handles' = (h :> revived) @@ handles
           /\ runners' = (revived.test_runner :> snapshot.test_runner_snapshot) @@ runners
    /\ helpers' = (h :> NewHelper) @@ helpers
    /\ registered' = (h :> <<>>) @@ registered
    /\ UNCHANGED <<id_allocator, receipts, snapshot, cache_vars, test_vars>>

InitCacheVars ==
    /\ TEST_ENVIRONMENT_CACHE = <<>>
    /\ PACKAGE_CACHE = <<>>
    /\ env_lock = Unlocked
    /\ pkg_lock = Unlocked
    /\ threads = <<>>
    /\ bootstraps = 0

\* Executed rounds of h: every execute() takes one transaction nonce.
Rounds(h) == LedgerOf(h).nonce - snapshot.test_runner_snapshot.nonce

----------------------------------------------------------------------------
(* Spec: one handle, its instruction tracker followed over execute rounds. *)

Labels == {"a", "b"}
\* (instruction_count, label_instruction_id) of the calls made: a step that appends
\* nothing, and the helper's three instructions with the third one labelled
TrackerCalls == {<<0, 0>>, <<3, 2>>}

Init ==
    /\ id_allocator \in IdAllocators
    /\ LET made == new_with_hello_swap(1)
       IN  /\ handles = (1 :> made.env)
           /\ runners = (1 :> made.ledger)
           /\ snapshot = create_snapshot(made.env, made.ledger)
    /\ receipts = <<>>
    /\ helpers = (1 :> NewHelper)
    /\ registered = (1 :> <<>>)
    /\ InitTestVars
    /\ InitCacheVars

Next ==
    \/ \E label \in Labels, call \in TrackerCalls :
          /\ Len(registered[1]) < MaxCalls
          /\ NewInstruction(1, label, call[1], call[2])
    \/ /\ Rounds(1) < MaxRounds
       /\ Execute(1)
    \/ ResetInstructions(1)

Spec == Init /\ [][Next]_vars

----------------------------------------------------------------------------
(* SpecRevive: a test that revives two environments from one snapshot and  *)
(* works on both, in any order, until one of its calls aborts it.          *)

\* The two environments the test revives from the snapshot.
Handles == {1, 2}
XAmounts == {1, 2}

InitRevive ==
    /\ id_allocator \in IdAllocators
    /\ LET made == new_with_hello_swap(0)
       IN  snapshot = create_snapshot(made.env, made.ledger)
    /\ handles = <<>>
    /\ runners = <<>>
    /\ receipts = <<>>
    /\ helpers = <<>>
    /\ registered = <<>>
    /\ InitTestVars
    /\ InitCacheVars

CanBuild(h) == h \in DOMAIN handles /\ Len(registered[h]) < ReviveCalls
CanExecute(h) == h \in DOMAIN handles /\ Rounds(h) < ReviveRounds

\* The operations the test makes on its handle h.
HandleStep(h) ==
    \/ CanBuild(h) /\ NewInstruction(h, "a", 3, 2)
    \/ \E x_amount \in XAmounts : CanBuild(h) /\ Swap(h, x_amount)
    \/ CanExecute(h) /\ Execute(h)
    \/ CanExecute(h) /\ InstantiateDefault(h, 10, 1)

NextRevive == \E h \in Handles : ~Aborted /\ (Revive(h) \/ HandleStep(h))

SpecRevive == InitRevive /\ [][NextRevive]_vars

----------------------------------------------------------------------------
(* SpecExecute: one test that builds manifests of every outcome class,     *)
(* executes them with and without an expectation, and keeps the Receipts.  *)

\* helper.instantiate(x_address, y_address, y_amount, price), without executing
Instantiate(h, y_amount, price) ==
    /\ h \in DOMAIN handles
    /\ handles' = [handles EXCEPT
                      ![h] = instantiate(handles[h], handles[h].x_address, handles[h].y_address,
                                         y_amount, price)]
    /\ registered' = [registered EXCEPT ![h] = Append(@, NewCall("instantiate", 3, 2))]
    /\ UNCHANGED <<id_allocator, runners, receipts, helpers, snapshot, cache_vars,
                   test_vars>>

\* mem::replace(&mut env.manifest_builder, ManifestBuilder::new()): the builder is
\* taken out of the handle, which is left with one that locks no fee.
ReplaceBuilder(h) ==
    /\ h \in DOMAIN handles
    /\ handles[h].manifest_builder # <<>>
    /\ handles' = [handles EXCEPT ![h].manifest_builder = <<>>]
    /\ UNCHANGED <<id_allocator, runners, receipts, helpers, snapshot, registered,
                   cache_vars, test_vars>>

\* What the named execute variant does on env.
ExecuteCall(op, env, ledger, preview_intent) ==
    CASE op = "execute" ->
            LET done == execute(env, ledger, preview_intent)
            IN  [done |-> done, result |-> [ok |-> TRUE, value |-> done.receipt]]
      [] op = "execute_expect_success" -> execute_expect_success(env, ledger, preview_intent)
      [] op = "execute_expect_failure" -> execute_expect_failure(env, ledger, preview_intent)
      [] op = "execute_expect_rejection" -> execute_expect_rejection(env, ledger, preview_intent)

\* let receipt = helper.<op>(verbose); the test keeps the Receipt it gets.
ExecuteKept(h, op) ==
    /\ h \in DOMAIN handles
    /\ \E preview_intent \in PreviewIntents(LedgerOf(h)) :
       \E call \in {ExecuteCall(op, handles[h], LedgerOf(h), preview_intent)} :
           /\ handles' = [handles EXCEPT ![h] = call.done.env]
           /\ runners' = [runners EXCEPT ![handles[h].test_runner] = call.done.ledger]
           /\ receipts' = (h :> call.done.receipt) @@ receipts
           /\ kept' = IF call.result.ok THEN Append(kept, call.result.value) ELSE kept
           /\ observed' = [op |-> op, result |-> call.result]
    /\ registered' = [registered EXCEPT ![h] = <<>>]
    /\ UNCHANGED <<id_allocator, helpers, snapshot, cache_vars>>

ExecuteOps ==
    {"execute", "execute_expect_success", "execute_expect_failure", "execute_expect_rejection"}
Prices == {0, 1}

NextExecute ==
    \/ /\ ~Aborted /\ Len(registered[1]) < ExecCalls
       /\ NewInstruction(1, "a", 0, 0)
    \/ \E price \in Prices :
          /\ ~Aborted /\ Len(registered[1]) < ExecCalls
          /\ Instantiate(1, 10, price)
    \/ /\ ~Aborted /\ registered[1] = <<>>
       /\ ReplaceBuilder(1)
    \/ \E op \in ExecuteOps :
          /\ ~Aborted /\ Len(kept) < ExecRounds
          /\ ExecuteKept(1, op)

SpecExecute == Init /\ [][NextExecute]_vars

----------------------------------------------------------------------------
(* SpecOutputs: one test that builds a manifest, executes it and queries   *)
(* the Receipt by label and the environment by package name.               *)

\* The Receipt the test queries: the one execute() returned last.
LastReceipt == kept[Len(kept)]

\* env.package_address(name)
PackageAddress(h, package_name) ==
    /\ h \in DOMAIN handles
    /\ observed' = [op |-> "package_address", key |-> package_name,
                    result |-> package_address(handles[h], package_name)]
    /\ UNCHANGED <<id_allocator, runners, handles, receipts, helpers, snapshot, registered,
                   kept, cache_vars>>

\* receipt.outputs(label)
Outputs(instruction_label) ==
    /\ kept # <<>>
    /\ observed' = [op |-> "outputs", key |-> instruction_label,
                    result |-> Receipt_outputs(LastReceipt, instruction_label)]
    /\ UNCHANGED <<id_allocator, runners, handles, receipts, helpers, snapshot, registered,
                   kept, cache_vars>>

\* receipt.output_buckets(label)
OutputBuckets(instruction_label) ==
    /\ kept # <<>>
    /\ \E every_instruction \in BOOLEAN :
          observed' = [op |-> "output_buckets", key |-> instruction_label,
                       result |-> Receipt_output_buckets(LastReceipt, instruction_label,
                                                         every_instruction)]
    /\ UNCHANGED <<id_allocator, runners, handles, receipts, helpers, snapshot, registered,
                   kept, cache_vars>>

QueriedLabels == {"a", "swap", "instantiate", "unregistered_label"}
QueriedNames == {"HelloSwap", "Unregistered"}
SwapAmounts == {0, 2}
\* The labels the test registers itself, on the instruction after the next one.
OwnLabels == {"a", "swap"}

\* The test still builds: it has not executed the manifest it will query.
Building == ~Aborted /\ kept = <<>>

NextOutputs ==
    \/ /\ Building /\ registered[1] = <<>> /\ helpers[1].pool_address = NoAddress
       /\ InstantiateDefault(1, 10, 1)
    \/ /\ Building /\ Len(registered[1]) < OutputCalls
       /\ Instantiate(1, 10, 1)
    \/ \E label \in OwnLabels :
          /\ Building /\ Len(registered[1]) < OutputCalls
          /\ NewInstruction(1, label, 0, 1)
    \/ \E x_amount \in SwapAmounts :
          /\ Building /\ Len(registered[1]) < OutputCalls
          /\ Swap(1, x_amount)
    \/ /\ Building
       /\ ExecuteKept(1, "execute")
    \/ \E package_name \in QueriedNames :
          /\ ~Aborted
          /\ PackageAddress(1, package_name)
    \/ \E instruction_label \in QueriedLabels :
          /\ ~Aborted
          /\ Outputs(instruction_label)
    \/ \E instruction_label \in QueriedLabels :
          /\ ~Aborted
          /\ OutputBuckets(instruction_label)

SpecOutputs == Init /\ [][NextOutputs]_vars

----------------------------------------------------------------------------
(* SpecSnapshot: one environment that is built on, executed, snapshotted   *)
(* and cloned while manifest operations are pending; the snapshot is       *)
(* revived into a second environment.                                      *)

\* let snapshot = env.create_snapshot(); the test notes what the environment and its
\* ledger were when the snapshot was taken.
CreateSnapshot(h) ==
    /\ h \in DOMAIN handles
    /\ snapshot' = create_snapshot(handles[h], LedgerOf(h))
    /\ observed' = [op |-> "create_snapshot", of |-> h,
                    env |-> handles[h], ledger |-> LedgerOf(h)]
    /\ UNCHANGED <<id_allocator, runners, handles, receipts, helpers, registered, kept,
                   cache_vars>>

\* let to = env.clone(), wrapped in a new helper
Clone(h, to) ==
    /\ h \in DOMAIN handles
    /\ to \notin DOMAIN handles
    /\ LET cloned == clone(handles[h], LedgerOf(h), to)
           copied == create_snapshot(handles[h], LedgerOf(h)).test_runner_snapshot
       IN  /\ handles' = (to :> cloned) @@ handles
           /\ runners' = (cloned.test_runner :> copied) @@ runners
    /\ helpers' = (to :> NewHelper) @@ helpers
    /\ registered' = (to :> <<>>) @@ registered
    /\ UNCHANGED <<id_allocator, receipts, snapshot, cache_vars, test_vars>>

\* execute() rounds made on the environment the test started with
Executed == LedgerOf(1).nonce - new_with_hello_swap(1).ledger.nonce

NextSnapshot ==
    \/ /\ Len(registered[1]) < SnapshotCalls
       /\ NewInstruction(1, "a", 0, 0)
    \/ /\ Len(registered[1]) < SnapshotCalls
       /\ Instantiate(1, 10, 1)
    \/ /\ Executed < SnapshotRounds
       /\ Execute(1)
    \/ /\ observed = NoCall
       /\ CreateSnapshot(1)
    \/ /\ observed # NoCall
       /\ Revive(2)
    \/ Clone(1, 3)

SpecSnapshot == Init /\ [][NextSnapshot]_vars

----------------------------------------------------------------------------
(* SpecBuilder: one test that builds on the handle new returned, then on   *)
(* one revived from its Snapshot, then on a clone, only through the        *)
(* helper's steps, each of which appends its operations and registers them *)
(* with new_instruction.                                                   *)

HelperStep(h) ==
    \/ /\ h \in DOMAIN handles
       /\ Len(registered[h]) < BuilderCalls
       /\ Instantiate(h, 10, 1)
    \/ /\ h \in DOMAIN handles
       /\ Len(registered[h]) < BuilderCalls
       /\ Swap(h, 2)
    \/ /\ h \in DOMAIN handles
       /\ Len(kept) < BuilderRounds
       /\ ExecuteKept(h, "execute")

\* The test works on the handle it obtained last.
Current == CHOOSE h \in DOMAIN handles : \A g \in DOMAIN handles : g <= h

NextBuilder ==
    \/ ~Aborted /\ HelperStep(Current)
    \/ /\ ~Aborted
       /\ Current = 1
       /\ registered[1] = <<>>
       /\ helpers[1].pool_address = NoAddress
       /\ InstantiateDefault(1, 10, 1)
    \/ /\ ~Aborted
       /\ registered[Current] = <<>>
       /\ Revive(2)
    \/ /\ ~Aborted
       /\ registered[Current] = <<>>
       /\ Clone(1, 3)

SpecBuilder == Init /\ [][NextBuilder]_vars

----------------------------------------------------------------------------
(* SpecSort: a test that holds an environment and calls sort_addresses.    *)

\* The addresses the test passes: small ones and those of the environment's a and b.
SortInputs == (0 .. MaxAddress) \cup {handles[1].a_address, handles[1].b_address}

\* sort_addresses(a_address, b_address)
SortAddresses(a_address, b_address) ==
    /\ observed' = [op |-> "sort_addresses", a_address |-> a_address, b_address |-> b_address,
                    result |-> Returns(sort_addresses(a_address, b_address))]
    /\ UNCHANGED <<id_allocator, runners, handles, receipts, helpers, snapshot, registered,
                   kept, cache_vars>>

NextSort == \E a_address, b_address \in SortInputs : SortAddresses(a_address, b_address)

SpecSort == Init /\ [][NextSort]_vars

----------------------------------------------------------------------------
(* SpecSwap: one test that instantiates a pool with instantiate_default    *)
(* and swaps against it over successive execute rounds.                    *)

\* The y reserves and the prices the pool is instantiated with, and the x inputs.
Reserves == {Reserve, 10}
PoolPrices == {1, 2}

\* The pool of the helper of test h, as the ledger of its environment holds it.
Pool(h) == LedgerOf(h).components[helpers[h].pool_address]

NextSwap ==
    \/ \E y_amount \in Reserves, price \in PoolPrices :
          /\ ~Aborted
          /\ helpers[1].pool_address = NoAddress
          /\ InstantiateDefault(1, y_amount, price)
    \/ \E x_amount \in XAmounts :
          /\ ~Aborted
          /\ Len(kept) < SwapRounds
          /\ Len(registered[1]) < SwapCalls
          /\ Swap(1, x_amount)
    \/ \E op \in {"execute", "execute_expect_failure"} :
          /\ ~Aborted
          /\ helpers[1].pool_address # NoAddress
          /\ registered[1] # <<>>
          /\ Len(kept) < SwapRounds
          /\ ExecuteKept(1, op)
    \/ /\ ~Aborted
       /\ OutputBuckets("swap")

SpecSwap == Init /\ [][NextSwap]_vars

----------------------------------------------------------------------------
(* SpecInstantiate: one test that instantiates pools at prices on both     *)
(* sides of zero, with instantiate_default or with instantiate and an      *)
(* execute variant, and reads outputs("instantiate").                      *)

InstantiatePrices == {-1, 0, 1, 2}

NextInstantiate ==
    \/ \E y_amount \in Reserves, price \in InstantiatePrices :
          /\ ~Aborted /\ registered[1] = <<>> /\ helpers[1].pool_address = NoAddress
          /\ InstantiateDefault(1, y_amount, price)
    \/ \E y_amount \in Reserves, price \in InstantiatePrices :
          /\ ~Aborted /\ registered[1] = <<>> /\ Len(kept) < InstantiateRounds
          /\ Instantiate(1, y_amount, price)
    \/ \E op \in {"execute_expect_success", "execute_expect_failure"} :
          /\ ~Aborted /\ registered[1] # <<>>
          /\ ExecuteKept(1, op)
    \/ /\ ~Aborted
       /\ Outputs("instantiate")

SpecInstantiate == Init /\ [][NextInstantiate]_vars

----------------------------------------------------------------------------
(* SpecCacheUse: tests that call TestEnvironment::new concurrently and     *)
(* then execute manifests, publish further packages and create resources   *)
(* on the environment they were given.                                     *)

\* The test that goes on to execute manifests, to publish packages and to create
\* resources on the environment new returned to it, while the other tests call new.
Publisher == 1

\* The package map test t passes to new: that test passes one location under one
\* name; the second passes none, or the same location under another name, so that two
\* calls with the same set of locations build environments that differ; a further
\* test passes none.
UsedMaps(t) ==
    IF t = Publisher THEN {[n \in {"A"} |-> "d1"]}
    ELSE IF t = 2 THEN {<<>>, [n \in {"B"} |-> "d1"]}
    ELSE {<<>>}
\* The package maps that test passes to compile_and_publish_packages afterwards.
PublishedMaps == {[n \in {"A"} |-> "d1"], [n \in {"A"} |-> "d2"]}

\* The ledger state generate_new_test_environment leaves its simulator in: every
\* bootstrap ends in it, and once a call of new has returned the cache holds it under
\* the empty set.
BaselineLedger == TEST_ENVIRONMENT_CACHE[{}].test_runner_snapshot

\* Resources the test of thread t has created on its simulator since new returned
\* the environment: those beyond the baseline's.
CreatedSince(t) ==
    Cardinality(DOMAIN LedgerOf(t).account_out) - Cardinality(DOMAIN BaselineLedger.account_out)

\* execute() rounds made on the environment of thread t since new returned it, and
\* resource creations that failed: the transactions of its simulator that published no
\* package and created no resource.
RoundsSince(t) ==
    LedgerOf(t).nonce - (BaselineLedger.nonce + Cardinality(LedgerOf(t).packages)
                            + CreatedSince(t))

\* env.execute(false) on the environment new returned to thread t; the test drops
\* the Receipt.
ExecuteReturned(t) ==
    /\ threads[t].pc = "returned"
    /\ \E preview_intent \in PreviewIntents(LedgerOf(t)) :
       \E done \in {execute(handles[t], LedgerOf(t), preview_intent)} :
           /\ handles' = [handles EXCEPT ![t] = done.env]
           /\ runners' = [runners EXCEPT ![handles[t].test_runner] = done.ledger]
    /\ UNCHANGED <<id_allocator, cache_vars, receipts, helpers, snapshot, registered,
                   test_vars>>

\* The arguments the test passes to create_fungible_resource_advanced: an amount, a
\* divisibility and an account the resource manager accepts, and ones it refuses.
Amounts == {-1, MAX_SUPPLY}
Divisibilities == {DIVISIBILITY_MAXIMUM, DIVISIBILITY_MAXIMUM + 1}
AccountsOf(t) == {handles[t].account, NoAddress}

\* env.test_runner.create_fungible_resource_advanced(amount, divisibility, account,
\* metadata), called by the test of thread t on the simulator of the environment new
\* returned to it; the environment's builder, labels and address table are not
\* touched.  The transaction runs whatever the arguments, and expect_commit(true)
\* aborts the test when it failed.
CreateFungibleResourceAdvanced(t, amount, divisibility, account) ==
    /\ threads[t].pc = "returned"
    /\ LET created == create_fungible_resource_advanced(LedgerOf(t), amount, divisibility,
                                                        account, metadata("Test token C", "C"))
       IN  /\ runners' = [runners EXCEPT ![handles[t].test_runner] = created.ledger]
           /\ observed' = [op |-> "create_fungible_resource_advanced", of |-> t,
                           result |-> created.result]
    /\ UNCHANGED <<id_allocator, cache_vars, handles, receipts, helpers, snapshot,
                   registered, kept>>

\* Calls the test of thread t has made on the environment since new returned it:
\* execute, compile_and_publish_packages and create_fungible_resource_advanced.
UsesSince(t) == RoundsSince(t) + threads[t].standalone + CreatedSince(t)

\* The test of thread t goes on using the environment new returned to it: it has
\* not aborted and has calls left.
CanUse(t) ==
    /\ threads[t].pc = "returned"
    /\ ~Aborted
    /\ UsesSince(t) < UseCalls

NextCacheUse ==
    \/ \E t \in Threads : \E packages \in UsedMaps(t) :
          \E order \in IterationOrders(DOMAIN packages) : Call(t, packages, order)
    \/ \E t \in Threads : ThreadStep(t)
    \/ /\ CanUse(Publisher)
       /\ ExecuteReturned(Publisher)
    \/ \E packages \in PublishedMaps :
          \E order \in IterationOrders(DOMAIN packages) :
             /\ CanUse(Publisher)
             /\ CompileAndPublishPackages(Publisher, packages, order)
    \/ /\ CanUse(Publisher)
       /\ \E amount \in Amounts, divisibility \in Divisibilities,
             account \in AccountsOf(Publisher) :
             CreateFungibleResourceAdvanced(Publisher, amount, divisibility, account)

SpecCacheUse == InitCache /\ [][NextCacheUse]_vars

----------------------------------------------------------------------------
(* Properties. *)

Returned(t) == threads[t].pc = "returned"
PublishedDirs(ledger) == {p.code.source : p \in ledger.packages}
\* A ledger without its packages and the nonces their publication took.
WithoutPackages(ledger) == [ledger EXCEPT !.packages = {}, !.nonce = 0]

\* A step of test h on its own handle, or the revival that creates it (SpecRevive).
ActsOn(h) == Revive(h) \/ HandleStep(h)

\* C1: operations on one environment revived from a snapshot (new_instruction,
\* builder steps, execute), and its revival, leave the ledger state and the address
\* table of every other environment revived from the same snapshot unchanged.
ReferentialIndependence ==
    [][\A h \in Handles : \A g \in DOMAIN handles \ {h} :
          ActsOn(h) => /\ g \in DOMAIN handles'
                       /\ runners'[handles'[g].test_runner] = LedgerOf(g)
                       /\ AddressTable(handles'[g]) = AddressTable(handles[g])]_vars

\* Both tests hold a revived environment, one has instantiated a pool on its ledger,
\* and the other's ledger is still the snapshot's.
ReferentialIndependenceWitness ==
    \E h, g \in DOMAIN handles :
        /\ h # g
        /\ DOMAIN LedgerOf(h).components # {}
        /\ LedgerOf(h).account_out[handles[h].y_address] = 10
        /\ LedgerOf(g) = snapshot.test_runner_snapshot
        /\ AddressTable(handles[g]) = AddressTable(snapshot)

\* C2: two calls of TestEnvironment::new with the same set of package locations
\* return environments with identical address tables.
SameLocationsSameAddressTable ==
    \A t1, t2 \in Threads :
        (Returned(t1) /\ Returned(t2) /\ threads[t1].package_dirs = threads[t2].package_dirs)
            => AddressTable(handles[t1]) = AddressTable(handles[t2])

\* C3: the environment new(S1) returns has exactly the packages of S1 published on
\* top of the baseline, and the snapshot cached under any set S holds exactly the
\* packages of S.
ExactPackageSet ==
    /\ \A t \in Threads :
          Returned(t) =>
             /\ PublishedDirs(LedgerOf(t)) = Range(threads[t].packages)
             /\ WithoutPackages(LedgerOf(t)) = WithoutPackages(generate_new_test_environment(t).ledger)
    /\ \A S \in DOMAIN TEST_ENVIRONMENT_CACHE :
          PublishedDirs(TEST_ENVIRONMENT_CACHE[S].test_runner_snapshot) = S

\* One call returned the environment of {d1} and another that of its superset
\* {d1, d2}; the baseline and both sets have their own cache entries, and the two
\* returned ledgers differ in the package of d2 only.
ExactPackageSetWitness ==
    /\ {{}, {"d1"}, {"d1", "d2"}} \subseteq DOMAIN TEST_ENVIRONMENT_CACHE
    /\ \E t1, t2 \in Threads :
          /\ Returned(t1) /\ Returned(t2)
          /\ threads[t1].package_dirs = {"d1"}
          /\ threads[t2].package_dirs = {"d1", "d2"}
          /\ PublishedDirs(LedgerOf(t2)) \ PublishedDirs(LedgerOf(t1)) = {"d2"}

\* C4 as stated: generate_new_test_environment runs at most once per process.
BootstrappedAtMostOnce == bootstraps <= 1

\* C4, amended: the baseline is bootstrapped only in a call whose lookup of the
\* empty set missed, once per such call: a lookup that finds the baseline in the
\* cache is never followed by a bootstrap, a lookup that misses always is (whatever
\* the cache holds by the time the bootstrap runs), and there are never more
\* bootstraps than calls of new under way or returned.
BootstrapOnlyOnMiss ==
    /\ [](bootstraps <= Cardinality({t \in Threads : threads[t].pc # "idle"}))
    /\ [][/\ \A t \in Threads :
              /\ (threads[t].pc = "get_base_locked" /\ threads'[t].pc # "get_base_locked") =>
                    (threads'[t].pc = "generate" <=> {} \notin DOMAIN TEST_ENVIRONMENT_CACHE)
              /\ (threads[t].pc # "generate" /\ threads'[t].pc = "generate") =>
                    threads[t].pc = "get_base_locked"
          /\ bootstraps' # bootstraps =>
                /\ bootstraps' = bootstraps + 1
                /\ \E t \in Threads : /\ threads[t].pc = "generate"
                                       /\ threads'[t].pc = "write_base"
                                       /\ t \notin DOMAIN handles
                                       /\ t \in DOMAIN handles']_vars

\* Two calls have bootstrapped a baseline, and a third party of the race is served:
\* the cache holds one baseline snapshot and one of the two insertions was dropped.
BootstrapOnlyOnMissWitness ==
    /\ bootstraps = 2
    /\ {} \in DOMAIN TEST_ENVIRONMENT_CACHE
    /\ \E t \in Threads : Returned(t) /\ ~threads[t].from_cache /\ ~threads[t].inserted
                          /\ threads[t].packages = <<>>

\* C5: a value stored under a key of either cache is never replaced or removed.
FirstInsertWins ==
    [][/\ \A k \in DOMAIN TEST_ENVIRONMENT_CACHE :
             /\ k \in DOMAIN TEST_ENVIRONMENT_CACHE'
             /\ TEST_ENVIRONMENT_CACHE'[k] = TEST_ENVIRONMENT_CACHE[k]
       /\ \A k \in DOMAIN PACKAGE_CACHE :
             /\ k \in DOMAIN PACKAGE_CACHE'
             /\ PACKAGE_CACHE'[k] = PACKAGE_CACHE[k]]_vars

\* A call built its environment, found the key taken when it came to insert, and
\* returned; the snapshot kept is the first one, which differs from what it built.
FirstInsertWinsWitness ==
    \E t \in Threads :
        /\ Returned(t) /\ ~threads[t].from_cache /\ ~threads[t].inserted
        /\ threads[t].package_dirs \in DOMAIN TEST_ENVIRONMENT_CACHE
        /\ AddressTable(TEST_ENVIRONMENT_CACHE[threads[t].package_dirs]) # AddressTable(handles[t])

\* A thread holds a lock only inside the cache function that took it, so never two.
LockDiscipline ==
    \A t \in Threads :
        /\ t \in env_lock.readers => threads[t].pc \in {"get_env_locked", "get_base_locked"}
        /\ env_lock.writer = t => threads[t].pc \in {"write_base_locked", "write_env_locked"}
        /\ t \in pkg_lock.readers => threads[t].pc = "get_pkg_locked"
        /\ pkg_lock.writer = t => threads[t].pc = "write_pkg_locked"
        /\ ~(/\ t \in env_lock.readers \/ env_lock.writer = t
             /\ t \in pkg_lock.readers \/ pkg_lock.writer = t)

\* C6: every call of TestEnvironment::new eventually returns an environment, and no
\* thread holds a cache lock outside the cache function that took it.
NewEventuallyReturns ==
    /\ [](LockDiscipline)
    /\ \A t \in Threads : (threads[t].pc # "idle") ~> (Returned(t) /\ t \in DOMAIN handles)

\* Every call has returned, one of them after building both packages on a miss.
NewEventuallyReturnsWitness ==
    /\ \A t \in Threads : Returned(t)
    /\ \E t \in Threads : ~threads[t].from_cache /\ threads[t].package_dirs = {"d1", "d2"}
    /\ \E t \in Threads : threads[t].from_cache

\* C7: the environment new(package_map) returns resolves every name of package_map.
RequestedNamesResolve ==
    \A t \in Threads :
        Returned(t) => DOMAIN threads[t].packages \subseteq DOMAIN handles[t].package_addresses

----------------------------------------------------------------------------
(* The instruction tracker (Spec). *)

\* The step is a new_instruction call on h; registered'[h] ends with its arguments.
IsNewInstruction(h) == Len(registered'[h]) = Len(registered[h]) + 1
LastCall(h) == registered'[h][Len(registered'[h])]
\* The step is an execute() on h: its simulator has taken a transaction nonce.
IsExecute(h) == runners'[handles[h].test_runner].nonce # LedgerOf(h).nonce
\* The step is a reset_instructions() the test calls on h outside execute().
IsResetInstructions(h) ==
    /\ ~IsExecute(h)
    /\ ~IsNewInstruction(h)
    /\ handles'[h] = reset_instructions(handles[h])

IdsOf(env, label) ==
    IF label \in DOMAIN env.instruction_ids_by_label
    THEN env.instruction_ids_by_label[label] ELSE <<>>

\* C8: new_instruction(label, instruction_count, label_instruction_id) at counter c
\* appends c + label_instruction_id to label's list, sets the counter to
\* c + instruction_count, and changes nothing else.
NewInstructionEffect ==
    [][\A h \in DOMAIN handles :
          IsNewInstruction(h) =>
             LET call == LastCall(h)
                 old == handles[h]
                 new == handles'[h]
             IN  /\ IdsOf(new, call.label)
                      = Append(IdsOf(old, call.label), old.instruction_counter + call.label_instruction_id)
                 /\ new.instruction_counter = old.instruction_counter + call.instruction_count
                 /\ DOMAIN new.instruction_ids_by_label
                      = DOMAIN old.instruction_ids_by_label \cup {call.label}
                 /\ \A l \in DOMAIN old.instruction_ids_by_label \ {call.label} :
                       IdsOf(new, l) = IdsOf(old, l)
                 /\ new.manifest_builder = old.manifest_builder
                 /\ AddressTable(new) = AddressTable(old)
                 /\ new.test_runner = old.test_runner
                 /\ runners' = runners]_vars

\* new_instruction has been called at a counter past 1 for a label that already had
\* an id, while another label keeps its own list.
NewInstructionEffectWitness ==
    /\ handles[1].instruction_counter = 7
    /\ IdsOf(handles[1], "a") = <<3, 6>>
    /\ IdsOf(handles[1], "b") = <<1>>

\* C9 as stated: the counter strictly increases with every new_instruction call.
CounterStrictlyIncreases ==
    [][\A h \in DOMAIN handles :
          IsNewInstruction(h) => handles'[h].instruction_counter > handles[h].instruction_counter]_vars

\* C9, amended: over new_instruction and execute calls, new_instruction never
\* decreases the counter and strictly increases it when instruction_count > 0; the
\* counter decreases only in an execute(), which sets it to 1.  The one other step that
\* changes the counter is a reset_instructions() the test calls itself, which is not
\* among the calls the statement is about, and sets it to 1 as well.
CounterMonotoneUntilExecute ==
    [][\A h \in DOMAIN handles :
          LET old == handles[h].instruction_counter
              new == handles'[h].instruction_counter
          IN  /\ IsNewInstruction(h) =>
                    /\ new >= old
                    /\ LastCall(h).instruction_count > 0 => new > old
              /\ (new < old /\ ~IsResetInstructions(h)) => IsExecute(h)
              /\ IsExecute(h) => new = 1
              /\ IsResetInstructions(h) => new = 1]_vars

\* An execute() has reset a counter that had advanced: its receipt holds two ids of
\* one label, the second one larger, and the counter is 1 again.
CounterMonotoneUntilExecuteWitness ==
    /\ 1 \in DOMAIN receipts
    /\ handles[1].instruction_counter = 1
    /\ \E l \in DOMAIN receipts[1].instruction_ids_by_label :
          LET ids == instruction_ids(receipts[1], l)
          IN  Len(ids) = 2 /\ ids[1] < ids[2]

\* The counter at the i-th call of a round: 1 plus the instruction counts before it.
RECURSIVE CounterAtCall(_, _)
CounterAtCall(calls, i) ==
    IF i = 1 THEN 1 ELSE CounterAtCall(calls, i - 1) + calls[i - 1].instruction_count

\* The positions registered for label by the calls of a round, in call order.
PositionsOf(calls, label) ==
    LET at == SelectSeq([i \in 1 .. Len(calls) |-> i], LAMBDA i : calls[i].label = label)
    IN  [k \in 1 .. Len(at) |-> CounterAtCall(calls, at[k]) + calls[at[k]].label_instruction_id]

LabelsOf(calls) == {calls[i].label : i \in 1 .. Len(calls)}

\* C10: a label registered several times in a round keeps every position, in
\* registration order: the label map, and the lookup of the Receipt that execute()
\* returns, hold for each label the counter at each of its calls plus the offset.
AllPositionsInOrder ==
    /\ [](\A h \in DOMAIN handles :
             /\ DOMAIN handles[h].instruction_ids_by_label = LabelsOf(registered[h])
             /\ \A l \in LabelsOf(registered[h]) :
                   handles[h].instruction_ids_by_label[l] = PositionsOf(registered[h], l))
    /\ [][\A h \in DOMAIN handles :
             IsExecute(h) =>
                /\ DOMAIN receipts'[h].instruction_ids_by_label = LabelsOf(registered[h])
                /\ \A l \in LabelsOf(registered[h]) :
                      instruction_ids(receipts'[h], l) = PositionsOf(registered[h], l)]_vars

\* "a" registered twice and then "b" once, three instructions each with the third
\* one labelled: the Receipt gives 3 and 6 for "a" and 9 for "b".
AllPositionsInOrderWitness ==
    /\ 1 \in DOMAIN receipts
    /\ DOMAIN receipts[1].instruction_ids_by_label = {"a", "b"}
    /\ instruction_ids(receipts[1], "a") = <<3, 6>>
    /\ instruction_ids(receipts[1], "b") = <<9>>

----------------------------------------------------------------------------
(* execute() and its Receipts (SpecExecute). *)

\* C11: after every execute(), whatever the class of the committing outcome, the
\* handle is in the initial building state: counter 1, empty label map, and a manifest
\* builder holding the fee lock against the primary account and nothing else.
ExecuteLeavesInitialBuildingState ==
    [][\A h \in DOMAIN handles :
          IsExecute(h) =>
             /\ receipts'[h].execution_receipt.outcome \in {"success", "failure", "rejection"}
             /\ handles'[h].instruction_counter = 1
             /\ handles'[h].instruction_ids_by_label = <<>>
             /\ handles'[h].manifest_builder = <<lock_standard_test_fee(handles[h].account)>>
             /\ handles'[h].account = handles[h].account]_vars

\* The test has executed a manifest that failed and one that was rejected, having
\* registered a label and replaced the builder, and its handle is as after construction.
ExecuteLeavesInitialBuildingStateWitness ==
    /\ Len(kept) = 2
    /\ kept[1].execution_receipt.outcome = "failure"
    /\ kept[1].instruction_ids_by_label # <<>>
    /\ kept[2].execution_receipt.outcome = "rejection"
    /\ handles[1].instruction_counter = 1
    /\ handles[1].instruction_ids_by_label = <<>>
    /\ Len(handles[1].manifest_builder) = 1

\* C12: the label map of a Receipt is the handle's label map as it stood when
\* execute() was called, which holds the labels of that round only, and no later call
\* on the handle changes a Receipt the test holds.
ReceiptHoldsLabelMapOfItsRound ==
    [][/\ \A h \in DOMAIN handles :
             IsExecute(h) =>
                /\ receipts'[h].instruction_ids_by_label = handles[h].instruction_ids_by_label
                /\ DOMAIN receipts'[h].instruction_ids_by_label = LabelsOf(registered[h])
                /\ Len(kept') > Len(kept) => kept'[Len(kept')] = receipts'[h]
       /\ \A i \in 1 .. Len(kept) : i <= Len(kept') /\ kept'[i] = kept[i]]_vars

\* Two Receipts of rounds that registered different labels, and a label registered
\* on the handle after both: each Receipt has the label of its own round only.
ReceiptHoldsLabelMapOfItsRoundWitness ==
    /\ Len(kept) = 2
    /\ DOMAIN kept[1].instruction_ids_by_label = {"a"}
    /\ DOMAIN kept[2].instruction_ids_by_label = {"instantiate"}
    /\ DOMAIN handles[1].instruction_ids_by_label = {"a"}

ExpectedClass(op) ==
    CASE op = "execute_expect_success" -> "success"
      [] op = "execute_expect_failure" -> "failure"
      [] op = "execute_expect_rejection" -> "rejection"

ExpectOps == {"execute_expect_success", "execute_expect_failure", "execute_expect_rejection"}

\* C17: execute_expect_success / _failure / _rejection return the Receipt exactly when
\* the committing outcome is of the expected class and abort carrying the outcome
\* otherwise; for any handle state exactly one of the three returns.
ExpectReturnsIffClassMatches ==
    /\ [](\A h \in DOMAIN handles : \A preview_intent \in PreviewIntents(LedgerOf(h)) :
             Cardinality({op \in ExpectOps :
                 ExecuteCall(op, handles[h], LedgerOf(h), preview_intent).result.ok}) = 1)
    /\ [][\A h \in DOMAIN handles :
             (IsExecute(h) /\ observed'.op \in ExpectOps) =>
                LET outcome == receipts'[h].execution_receipt
                IN  /\ observed'.result.ok <=> outcome.outcome = ExpectedClass(observed'.op)
                    /\ observed'.result.ok => observed'.result.value = receipts'[h]
                    /\ ~observed'.result.ok =>
                          /\ observed'.result.error = "CommitOutcomeMismatch"
                          /\ observed'.result.carrying = outcome
                          /\ kept' = kept]_vars

\* An expectation of success has returned a Receipt, and then an expectation of
\* failure has aborted on a rejected manifest, carrying the rejection.
ExpectReturnsIffClassMatchesWitness ==
    /\ Len(kept) = 1
    /\ kept[1].execution_receipt.outcome = "success"
    /\ observed.op = "execute_expect_failure"
    /\ ~observed.result.ok
    /\ observed.result.carrying.outcome = "rejection"

\* The step is a call of op with an answer that is not the one observed before.
Asked(op) ==
    /\ observed'.op = op
    /\ (observed.op = op /\ observed.key = observed'.key) => observed'.result # observed.result

\* C13: package_address(name) returns the address recorded for a published name,
\* which is the address of a package on the environment's ledger, and aborts with a
\* not-found error carrying the name for a name that was not published; the
\* environment and its ledger are the same after the call in both cases.
PackageAddressRecordedOrNotFound ==
    [][Asked("package_address") =>
          LET env == handles[1]
              package_name == observed'.key
          IN  /\ package_name \in DOMAIN env.package_addresses =>
                    /\ observed'.result = Returns(env.package_addresses[package_name])
                    /\ observed'.result.value \in {p.address : p \in LedgerOf(1).packages}
              /\ package_name \notin DOMAIN env.package_addresses =>
                    observed'.result = Aborts("NotFound", package_name)
              /\ handles' = handles
              /\ runners' = runners
              /\ kept' = kept]_vars

\* The address of a name that was not published has been asked for, after a manifest
\* was executed: the call aborted carrying that name.
PackageAddressRecordedOrNotFoundWitness ==
    /\ kept # <<>>
    /\ observed.op = "package_address"
    /\ observed.key = "Unregistered"
    /\ observed.key \notin DOMAIN handles[1].package_addresses
    /\ ~observed.result.ok
    /\ observed.result.carrying = "Unregistered"

ReceiptQueries == {"outputs", "output_buckets"}

\* C14: outputs(label) and output_buckets(label) with a label that is not in the
\* Receipt's label map abort with a not-found error carrying the label, whatever the
\* outcomes the Receipt holds; they never return an empty result.
UnregisteredLabelNotFound ==
    [][\A op \in ReceiptQueries :
          (Asked(op) /\ observed'.key \notin DOMAIN LastReceipt.instruction_ids_by_label) =>
             /\ observed'.result = Aborts("NotFound", observed'.key)
             /\ observed'.result # Returns(<<>>)]_vars

\* A Receipt of a failed manifest that registered the label "swap" only has been asked
\* for the deposits of another label: the call aborted carrying that label.
UnregisteredLabelNotFoundWitness ==
    /\ kept # <<>>
    /\ DOMAIN LastReceipt.instruction_ids_by_label = {"swap"}
    /\ LastReceipt.preview_receipt.outcome = "failure"
    /\ observed.op = "output_buckets"
    /\ observed.key = "unregistered_label"
    /\ ~observed.result.ok
    /\ observed.result.error = "NotFound"
    /\ observed.result.carrying = "unregistered_label"

\* C15: outputs(label) for a label of the Receipt's map returns one value for every
\* id registered under the label, in the order of registration, each the value the
\* committing outcome holds at that instruction position; it returns whenever the
\* manifest committed successfully and the ids are positions of its instructions.
OutputsOfCommittingOutcome ==
    [][(Asked("outputs") /\ observed'.key \in DOMAIN LastReceipt.instruction_ids_by_label) =>
          LET ids == LastReceipt.instruction_ids_by_label[observed'.key]
              committed == LastReceipt.execution_receipt
              values == observed'.result.value
          IN  /\ observed'.result.ok <=>
                    /\ committed.outcome = "success"
                    /\ \A i \in 1 .. Len(ids) : ids[i] + 1 \in DOMAIN committed.outputs
              /\ observed'.result.ok =>
                    /\ Len(values) = Len(ids)
                    /\ \A i \in 1 .. Len(ids) : values[i] = committed.outputs[ids[i] + 1]]_vars

\* Two instantiate calls under one label: outputs returned the two components of the
\* committing run, in the order of the calls, and the preview had created others.
OutputsOfCommittingOutcomeWitness ==
    /\ kept # <<>>
    /\ observed.op = "outputs"
    /\ observed.key = "instantiate"
    /\ observed.result.ok
    /\ LastReceipt.instruction_ids_by_label["instantiate"] = <<3, 6>>
    /\ Len(observed.result.value) = 2
    /\ observed.result.value[1] = LastReceipt.execution_receipt.outputs[4]
    /\ observed.result.value[2] = LastReceipt.execution_receipt.outputs[7]
    /\ observed.result.value[1] # observed.result.value[2]
    /\ LastReceipt.preview_receipt.outcome = "success"
    /\ LastReceipt.preview_receipt.outputs[4] # LastReceipt.execution_receipt.outputs[4]

\* C16: output_buckets(label) for a label of the Receipt's map, on a Receipt whose
\* preview committed successfully, returns one sequence for every id registered under
\* the label, in the order of registration, holding the resources of the deposits
\* ('Put') the preview outcome traced at that instruction position, in their order;
\* other worktop events are left out, so an instruction without deposits yields the
\* empty sequence, and there is always one sequence per registered id.
OutputBucketsOfPreviewDeposits ==
    [][(/\ Asked("output_buckets")
        /\ observed'.key \in DOMAIN LastReceipt.instruction_ids_by_label
        /\ LastReceipt.preview_receipt.outcome = "success") =>
          LET ids == LastReceipt.instruction_ids_by_label[observed'.key]
              previewed == LastReceipt.preview_receipt.execution_trace[1]
              buckets == observed'.result.value
              Deposits(id) == SelectSeq(previewed.worktop_changes[id + 1],
                                        LAMBDA change : change.change = "Put")
          IN  /\ observed'.result.ok
              /\ Len(buckets) = Len(ids)
              /\ \A i \in 1 .. Len(ids) :
                    /\ Len(buckets[i]) = Len(Deposits(ids[i]))
                    /\ \A k \in 1 .. Len(buckets[i]) :
                          /\ buckets[i][k].resource = Deposits(ids[i])[k].resource
                          /\ buckets[i][k].amount = Deposits(ids[i])[k].amount]_vars

RequestScoped == {"manifest_builder", "instruction_counter", "instruction_ids_by_label"}

\* C18: create_snapshot() records none of the request-scoped state and leaves the
\* handle it is taken from as it was, pending manifest operations, counter and label
\* map included; an environment revived from a snapshot or cloned from a handle starts
\* with counter 1, an empty label map and a builder holding only the fee lock against
\* the captured primary account, and making it changes no other handle.
SnapshotExcludesRequestState ==
    [][/\ (observed = NoCall /\ observed' # NoCall) =>
             /\ DOMAIN snapshot' \cap RequestScoped = {}
             /\ handles' = handles
             /\ runners' = runners
             /\ registered' = registered
       /\ \A h \in DOMAIN handles' \ DOMAIN handles :
             /\ handles'[h].instruction_counter = INSTRUCTION_COUNTER_INIT
             /\ handles'[h].instruction_ids_by_label = <<>>
             /\ handles'[h].account = handles[1].account
             /\ handles'[h].manifest_builder = <<lock_standard_test_fee(handles[1].account)>>
             /\ \A g \in DOMAIN handles : handles'[g] = handles[g]]_vars

\* A snapshot was taken of a handle with pending manifest operations, which it still
\* has; the environment revived from the snapshot and the clone of the handle are in
\* the initial building state.
SnapshotExcludesRequestStateWitness ==
    /\ observed # NoCall
    /\ observed.env = handles[1]
    /\ handles[1].instruction_counter > INSTRUCTION_COUNTER_INIT
    /\ handles[1].instruction_ids_by_label # <<>>
    /\ Len(handles[1].manifest_builder) > 1
    /\ DOMAIN handles = {1, 2, 3}
    /\ \A h \in {2, 3} :
          /\ handles[h].instruction_counter = INSTRUCTION_COUNTER_INIT
          /\ handles[h].instruction_ids_by_label = <<>>
          /\ Len(handles[h].manifest_builder) = 1

\* C19: the environment revived from a snapshot has the ledger state and the whole
\* address table (public key, account, dapp definition, admin badge, a/b/x/y/u/v, both
\* NFT addresses, package name table) the snapshotted environment had when the
\* snapshot was taken, and a clone has those of its original when it was cloned.
SnapshotRoundTrip ==
    [][/\ 2 \in DOMAIN handles' \ DOMAIN handles =>
             /\ AddressTable(handles'[2]) = AddressTable(observed.env)
             /\ runners'[handles'[2].test_runner] = observed.ledger
       /\ 3 \in DOMAIN handles' \ DOMAIN handles =>
             /\ AddressTable(handles'[3]) = AddressTable(handles[1])
             /\ runners'[handles'[3].test_runner] = LedgerOf(1)
             /\ handles'[3].test_runner # handles[1].test_runner]_vars

\* The snapshotted environment has executed a manifest since the snapshot was taken:
\* the revived environment has the ledger of the time of the snapshot, not the
\* current one, and the address table with the published package.
SnapshotRoundTripWitness ==
    /\ observed # NoCall
    /\ DOMAIN handles = {1, 2, 3}
    /\ LedgerOf(1) # observed.ledger
    /\ LedgerOf(2) = observed.ledger
    /\ AddressTable(handles[2]) = AddressTable(observed.env)
    /\ "HelloSwap" \in DOMAIN handles[2].package_addresses
    /\ AddressTable(handles[3]) = AddressTable(handles[1])

\* C21: a Snapshot stored in the environment cache stays as it was inserted: no step of
\* any thread, and no execute(), compile_and_publish_packages() or resource creation
\* on any environment, the one the Snapshot was taken of included, removes or changes
\* a cache entry or what reviving it yields.
CachedSnapshotNeverChanges ==
    [][\/ TEST_ENVIRONMENT_CACHE' = TEST_ENVIRONMENT_CACHE
       \/ \A key \in DOMAIN TEST_ENVIRONMENT_CACHE :
             /\ key \in DOMAIN TEST_ENVIRONMENT_CACHE'
             /\ TEST_ENVIRONMENT_CACHE'[key] = TEST_ENVIRONMENT_CACHE[key]]_vars

\* A thread missed, inserted the Snapshot of its environment, was handed that very
\* environment and has executed a manifest and published a further package on it;
\* another thread was handed a revived copy of the cached Snapshot, which still has the
\* ledger of the time of insertion.
CachedSnapshotNeverChangesWitness ==
    \E t, u \in Threads :
       /\ t # u
       /\ threads[t].pc = "returned" /\ threads[u].pc = "returned"
       /\ threads[t].package_dirs = {"d1"} /\ threads[u].package_dirs = {"d1"}
       /\ threads[t].inserted /\ ~threads[t].from_cache
       /\ threads[u].from_cache
       /\ ~Aborted
       /\ RoundsSince(t) = 1
       /\ threads[t].standalone = 1
       /\ PublishedDirs(LedgerOf(t)) = {"d1", "d2"}
       /\ RoundsSince(u) = 0
       /\ LedgerOf(t) # TEST_ENVIRONMENT_CACHE[{"d1"}].test_runner_snapshot
       /\ LedgerOf(u) = TEST_ENVIRONMENT_CACHE[{"d1"}].test_runner_snapshot

\* C22: under any interleaving of concurrent calls of new, every environment returned
\* and every Snapshot stored derives from the one baseline Snapshot stored under the
\* empty set: a thread goes on with a baseline it bootstrapped itself only if the
\* Snapshot of that baseline is the one the cache keeps, that is, its insertion was not
\* discarded.
DiscardedBaselineNeverUsed ==
    [][\A t \in Threads :
          (threads[t].pc = "write_base_locked" /\ threads'[t].pc # "write_base_locked") =>
             {} \notin DOMAIN TEST_ENVIRONMENT_CACHE]_vars

\* C23: a thread whose lookup of PACKAGE_CACHE finds an artifact for the location,
\* inside new or in a compile_and_publish_packages call of its own, does not compile
\* and publishes the cached artifact; a thread compiles only after its own lookup
\* missed, so a location is compiled again only by threads that missed before the
\* first insertion; of the insertions for a location the first survives and the
\* others are discarded, leaving the cache as it was.
ArtifactCompiledOnlyOnMiss ==
    [][\A t \in Threads :
          LET package_dir == threads[t].publishing[threads[t].order[1]]
              published == runners'[handles[t].test_runner].packages \ LedgerOf(t).packages
          IN  /\ (threads[t].pc = "get_pkg_locked" /\ threads'[t].pc # "get_pkg_locked") =>
                    IF package_dir \in DOMAIN PACKAGE_CACHE
                    THEN /\ threads'[t].pc = "publish"
                         /\ threads'[t].cache_result = <<PACKAGE_CACHE[package_dir]>>
                         /\ threads'[t].compiled = PACKAGE_CACHE[package_dir]
                    ELSE /\ threads'[t].pc = "compile"
                         /\ threads'[t].cache_result = <<>>
              /\ (threads[t].pc # "compile" /\ threads'[t].pc = "compile") =>
                    threads[t].pc = "get_pkg_locked"
              /\ (threads[t].pc = "compile" /\ threads'[t].pc # "compile") =>
                    /\ threads[t].cache_result = <<>>
                    /\ threads'[t].pc = "write_pkg"
                    /\ threads'[t].compiled = compile(package_dir)
              /\ (threads[t].pc = "write_pkg_locked" /\ threads'[t].pc # "write_pkg_locked") =>
                    /\ threads'[t].pc = "publish"
                    /\ package_dir \in DOMAIN PACKAGE_CACHE'
                    /\ threads'[t].inserted <=> package_dir \notin DOMAIN PACKAGE_CACHE
                    /\ package_dir \in DOMAIN PACKAGE_CACHE => PACKAGE_CACHE' = PACKAGE_CACHE
                    /\ package_dir \notin DOMAIN PACKAGE_CACHE =>
                          PACKAGE_CACHE'[package_dir] = threads[t].compiled
              /\ (threads[t].pc = "publish" /\ threads'[t].pc # "publish") =>
                    /\ published # {}
                    /\ \A p \in published :
                          p.code = IF threads[t].cache_result # <<>>
                                   THEN PACKAGE_CACHE[package_dir]
                                   ELSE compile(package_dir)
              /\ threads[t].pc \in {"get_pkg", "get_pkg_locked", "compile", "write_pkg",
                                     "write_pkg_locked"} =>
                    published = {}]_vars

\* Two threads missed on the same location and both compiled it: the artifact of one
\* is in the cache and that thread has returned, the other is about to insert its own.
ArtifactCompiledOnlyOnMissWitness ==
    \E t, u \in Threads :
       /\ t # u
       /\ threads[t].pc = "write_pkg"
       /\ threads[t].compiled.source \in DOMAIN PACKAGE_CACHE
       /\ Returned(u)
       /\ ~threads[u].from_cache
       /\ threads[t].compiled.source \in PublishedDirs(LedgerOf(u))

\* The operation a helper step registers under its label.
LabelledOp(label) == IF label = "instantiate" THEN "call_function" ELSE "call_method"

\* The instructions the calls registered on h in the current round account for.
RECURSIVE Registered(_)
Registered(calls) ==
    IF calls = <<>> THEN 0 ELSE calls[1].instruction_count + Registered(Tail(calls))

\* A builder step on h broke off before it had appended its operations: swap on a
\* helper without a pool, aborted by pool_address.unwrap().
BrokenOff(h) == Aborted /\ observed.op = "swap" /\ observed.of = h

CanonicalPair ==
    /\ \A h \in DOMAIN handles :
          /\ {handles[h].x_address, handles[h].y_address}
                = {handles[h].a_address, handles[h].b_address}
          /\ handles[h].x_address < handles[h].y_address
          /\ (/\ observed.op = "sort_addresses"
              /\ observed.a_address # observed.b_address
              /\ {observed.a_address, observed.b_address}
                    = {handles[h].a_address, handles[h].b_address}) =>
                observed.result.value = <<handles[h].x_address, handles[h].y_address>>
    /\ observed.op = "sort_addresses" =>
          LET pair == observed.result.value
          IN  /\ observed.result.ok
              /\ pair = sort_addresses(observed.b_address, observed.a_address)
              /\ pair[1] <= pair[2]
              /\ {pair[1], pair[2]} = {observed.a_address, observed.b_address}
              /\ observed.a_address # observed.b_address => pair[1] < pair[2]

\* The simulator gave a, created first, the larger address: the environment's (x, y)
\* is (b, a), and sort_addresses called with a and b, larger address first, returned
\* that pair.
CanonicalPairWitness ==
    /\ handles[1].a_address > handles[1].b_address
    /\ handles[1].x_address = handles[1].b_address
    /\ handles[1].y_address = handles[1].a_address
    /\ observed.op = "sort_addresses"
    /\ observed.a_address = handles[1].a_address
    /\ observed.b_address = handles[1].b_address
    /\ observed.result.value = <<handles[1].x_address, handles[1].y_address>>
    /\ observed.result.value = <<observed.b_address, observed.a_address>>

\* The swaps of the manifests that committed successfully and whose Receipt the test
\* kept, by Receipt and position.
KeptSwaps ==
    {<<i, j>> \in (1 .. Len(kept)) \X (1 .. SwapCalls) :
        /\ kept[i].execution_receipt.outcome = "success"
        /\ "swap" \in DOMAIN kept[i].instruction_ids_by_label
        /\ j <= Len(kept[i].instruction_ids_by_label["swap"])}

\* The number of swaps that committed successfully: the kept ones and those of a
\* manifest that committed although the test expected a failure.
SuccessfulSwaps ==
    Cardinality(KeptSwaps)
       + (IF Aborted /\ observed.result.carrying.outcome = "success"
          THEN Len(receipts[1].instruction_ids_by_label["swap"])
          ELSE 0)

\* The y reserve of the pool is the reserve it was instantiated with less one unit for
\* every successful swap so far, and the x reserve holds the price of each.
ReserveLessSwaps ==
    helpers[1].pool_address # NoAddress =>
       /\ Pool(1).y_vault.amount >= 0
       /\ Pool(1).y_vault.amount + SuccessfulSwaps \in Reserves
       /\ Pool(1).x_vault.amount = SuccessfulSwaps * Pool(1).price

\* An execute() of a manifest of swaps that commits successfully: every swap had an
\* input of at least the price, put 1 y and then input - price x on the worktop, as
\* output_buckets("swap") reports, and the y reserve went down by 1, the x reserve up
\* by the price, for every swap.
SwapPaysOneForPrice ==
    (/\ helpers[1].pool_address # NoAddress
     /\ registered[1] # <<>>
     /\ registered'[1] = <<>>
     /\ receipts'[1].execution_receipt.outcome = "success") =>
       LET receipt == receipts'[1]
           ids == receipt.instruction_ids_by_label["swap"]
           before == Pool(1)
           after == runners'[handles[1].test_runner].components[helpers[1].pool_address]
           input(j) == handles[1].manifest_builder[ids[j] - 1].amount
           paid(j) == <<[resource |-> handles[1].y_address, amount |-> 1],
                        [resource |-> handles[1].x_address, amount |-> input(j) - before.price]>>
       IN  /\ after.y_vault.amount = before.y_vault.amount - Len(ids)
           /\ after.x_vault.amount = before.x_vault.amount + Len(ids) * before.price
           /\ after.price = before.price
           /\ \A j \in 1 .. Len(ids) : input(j) >= before.price
           /\ \A every_instruction \in BOOLEAN :
                 Receipt_output_buckets(receipt, "swap", every_instruction)
                    = Returns([j \in 1 .. Len(ids) |-> paid(j)])

\* C26: after instantiation with y reserve R and price p each successful swap with
\* input x_in >= p puts exactly 1 y and x_in - p x on the worktop, in that order, as
\* output_buckets("swap") reports, and takes exactly 1 from the y reserve, so the k-th
\* swap runs against the reserve R - (k - 1).
SwapNumbers == [][SwapPaysOneForPrice]_vars /\ []ReserveLessSwaps

\* Reserve 10, price 1: a swap with input 1 and then one with input 2 have committed,
\* output_buckets("swap") of the second reports 1 y and 1 x, that of the first 1 y and
\* 0 x, and the reserve is 8.
SwapNumbersWitness ==
    /\ Len(kept) = 2
    /\ SuccessfulSwaps = 2
    /\ helpers[1].price = 1
    /\ Pool(1).y_vault.amount = 8
    /\ Pool(1).x_vault.amount = 2
    /\ Receipt_output_buckets(kept[1], "swap", FALSE) =
          Returns(<< <<[resource |-> handles[1].y_address, amount |-> 1],
                       [resource |-> handles[1].x_address, amount |-> 0]>> >>)
    /\ observed.op = "output_buckets"
    /\ observed.result =
          Returns(<< <<[resource |-> handles[1].y_address, amount |-> 1],
                       [resource |-> handles[1].x_address, amount |-> 1]>> >>)

\* An execute of a manifest of swaps one of which needs more than is available: the
\* manifest holds more swaps than the y reserve holds units, or one of its inputs is
\* less than the price.  It commits as a failure, execute_expect_failure returns its
\* Receipt, and the component is as it was.
ShortSwapFails ==
    LET ids == handles[1].instruction_ids_by_label["swap"]
        before == Pool(1)
        after == runners'[handles[1].test_runner].components[helpers[1].pool_address]
        input(j) == handles[1].manifest_builder[ids[j] - 1].amount
    IN  (/\ helpers[1].pool_address # NoAddress
         /\ registered[1] # <<>>
         /\ registered'[1] = <<>>
         /\ \/ Len(ids) > before.y_vault.amount
            \/ \E j \in 1 .. Len(ids) : input(j) < before.price) =>
           /\ receipts'[1].execution_receipt.outcome = "failure"
           /\ after.x_vault = before.x_vault
           /\ after.y_vault = before.y_vault
           /\ observed'.op = "execute_expect_failure" =>
                 observed'.result = Returns(receipts'[1])

\* C27: a swap that needs more than is available (a y reserve under 1 unit, or an
\* input under the price) ends in committed-failure, as execute_expect_failure
\* observes, and leaves both vaults of the component unchanged.
SwapNeedingMoreFails == [][ShortSwapFails]_vars

\* The reserve is used up by successful swaps, and a further swap was executed with
\* execute_expect_failure, which returned the Receipt of a committed failure.
SwapNeedingMoreFailsWitness ==
    /\ helpers[1].pool_address # NoAddress
    /\ Pool(1).y_vault.amount = 0
    /\ SuccessfulSwaps = Reserve
    /\ observed.op = "execute_expect_failure"
    /\ observed.result.ok
    /\ observed.result.value.execution_receipt.outcome = "failure"
    /\ "swap" \in DOMAIN observed.result.value.instruction_ids_by_label
    /\ kept[Len(kept)] = observed.result.value

\* The addresses of the components on the ledger of the test's handle.
Components == DOMAIN LedgerOf(1).components

\* An execute of a manifest that instantiates HelloSwap at a price: at a price of zero
\* or less it commits as a failure and the ledger holds the components it held; at a
\* price above zero it commits as a success, the ledger holds one more component, with
\* that price, and outputs("instantiate") is the one pair of its address and the price.
\* instantiate_default gives the helper a pool at a price above zero only; at a price
\* of zero or less its round commits as a failure, creates nothing, and
\* execute_expect_success aborts the test with that outcome.
InstantiateByPrice ==
    LET after == runners'[handles[1].test_runner].components
        receipt == receipts'[1]
        Created(price) ==
           /\ receipt.execution_receipt.outcome = "success"
           /\ \E address \in DOMAIN after :
                 /\ DOMAIN after = Components \cup {address}
                 /\ address \notin Components
                 /\ after[address].price = price
                 /\ receipt.execution_receipt.new_component_addresses = {address}
                 /\ Receipt_outputs(receipt, "instantiate") = Returns(<< <<address, price>> >>)
    IN  /\ (registered[1] # <<>> /\ registered'[1] = <<>>) =>
              LET id == handles[1].instruction_ids_by_label["instantiate"][1]
                  price == handles[1].manifest_builder[id + 1].price
              IN  IF price > 0
                  THEN Created(price)
                  ELSE /\ receipt.execution_receipt.outcome = "failure"
                       /\ receipt.execution_receipt.new_component_addresses = {}
                       /\ after = LedgerOf(1).components
        /\ helpers'[1] # helpers[1] =>
              /\ helpers'[1].price > 0
              /\ Created(helpers'[1].price)
              /\ helpers'[1].pool_address \in DOMAIN after \ Components
        /\ (observed' # observed /\ observed'.op = "instantiate_default") =>
              /\ observed'.price <= 0
              /\ runners'[handles[1].test_runner].nonce = LedgerOf(1).nonce + 1
              /\ receipt.execution_receipt.outcome = "failure"
              /\ receipt.execution_receipt.new_component_addresses = {}
              /\ after = LedgerOf(1).components
              /\ helpers' = helpers
              /\ observed'.result = Aborts("CommitOutcomeMismatch", receipt.execution_receipt)

\* C28: instantiating HelloSwap with price <= 0 ends in committed-failure and creates
\* no component; with price > 0 it ends in committed-success and the Receipt's outputs
\* for label "instantiate" hold exactly one entry, the pair (component address, price).
InstantiateOnlyAtPositivePrice == [][InstantiateByPrice]_vars

\* An instantiation at a price of zero or less committed as a failure, then one at
\* price 1 committed as a success; the ledger holds that one component and
\* outputs("instantiate") has returned the pair of its address and 1.
InstantiateOnlyAtPositivePriceWitness ==
    /\ Len(kept) = 2
    /\ kept[1].execution_receipt.outcome = "failure"
    /\ "instantiate" \in DOMAIN kept[1].instruction_ids_by_label
    /\ kept[2].execution_receipt.outcome = "success"
    /\ Cardinality(Components) = 1
    /\ observed.op = "outputs"
    /\ observed.result.ok
    /\ \E address \in Components :
          /\ observed.result.value = << <<address, 1>> >>
          /\ LedgerOf(1).components[address].price = 1

====
